---- MODULE Spec2Model ----
(***************************************************************************)
(* keenbytes/broccli: the parameter validator (param.go), the command      *)
(* model (cmd.go) and the parse/dispatch engine (cli.go, Broccli.Run).     *)
(*                                                                         *)
(* Go strings are sequences of one-character strings, so that comparison,  *)
(* sorting, the flag tokenizer and the validator's regular expressions     *)
(* work on characters as the code does.  Constraint flags are the source's *)
(* int64 bit sets.                                                         *)
(***************************************************************************)
EXTENDS Integers, Sequences, FiniteSets, TLC

VARIABLES
    commands,     \* Broccli.commands, each with its flags, args, env and options
    env,          \* Broccli.env, the global env vars
    parsedFlags,  \* Broccli.parsedFlags
    parsedArgs,   \* Broccli.parsedArgs
    osArgs,       \* os.Args
    environ,      \* the OS environment
    pc,           \* where the process is: idle, ready, post, handler, returned, panicked
    current,      \* the command Run matched
    flagset,      \* what the flag set resolved: the values behind the name and alias pointers
    exitCode,     \* what Run returned, once pc = "returned"
    log,          \* what Run has done, one event per step, in order
    runs,         \* how many times Run has been called on the registry
    defining,     \* a command under definition: what its Arg calls have built
    validating    \* a parameter, a value and the result of validateValue on them

vars == <<commands, env, parsedFlags, parsedArgs, osArgs, environ, pc, current,
          flagset, exitCode, log, runs, defining, validating>>

(* ---------------- bounds of the model ---------------- *)
\* tokens after the command name in os.Args
MaxTail == 3

\* Arg calls of one definition that repeat a name already declared
MaxRedeclared == 1

(* ---------------- flags.go / main.go constants ---------------- *)
TypeString == 0
TypeBool == 1
TypeInt == 2
TypeFloat == 3
TypeAlphanumeric == 4
TypePathFile == 5

IsRequired == 2
IsExistent == 4
IsNotExistent == 8
IsDirectory == 16
IsRegularFile == 32
IsValidJSON == 64
AllowDots == 128
AllowUnderscore == 256
AllowHyphen == 512
AllowMultipleValues == 1024
SeparatorColon == 2048
SeparatorSemiColon == 4096

maxArgs == 10

(* ---------------- int64 bit operations ---------------- *)
\* flags & bit > 0, for a single-bit constant
HasBit(flags, bit) == (flags \div bit) % 2 = 1

\* flags |= bit, for a single-bit constant
OrBit(flags, bit) == IF HasBit(flags, bit) THEN flags ELSE flags + bit

(* ---------------- strings ---------------- *)
EmptyString == << >>

Digits == {"0", "1", "2", "3", "4", "5", "6", "7", "8", "9"}

Letters == {"a", "b", "c", "d", "e", "f", "g", "h", "i", "j", "k", "l", "m",
            "n", "o", "p", "q", "r", "s", "t", "u", "v", "w", "x", "y", "z",
            "A", "B", "C", "D", "E", "F", "G", "H", "I", "J", "K", "L", "M",
            "N", "O", "P", "Q", "R", "S", "T", "U", "V", "W", "X", "Y", "Z"}

\* the bytes the model uses, in ascending byte value (the order of sort.Strings)
ByteOrder == <<"!", ",", "-", ".", "0", "1", "2", "3", "4", "5", "6", "7", "8", "9",
               ":", ";", "=",
               "A", "B", "C", "D", "E", "F", "G", "H", "I", "J", "K", "L", "M",
               "N", "O", "P", "Q", "R", "S", "T", "U", "V", "W", "X", "Y", "Z",
               "_",
               "a", "b", "c", "d", "e", "f", "g", "h", "i", "j", "k", "l", "m",
               "n", "o", "p", "q", "r", "s", "t", "u", "v", "w", "x", "y", "z">>

ByteValue(ch) == CHOOSE i \in 1..Len(ByteOrder) : ByteOrder[i] = ch

\* a < b as Go compares strings (bytewise, a proper prefix is smaller)
RECURSIVE StringLess(_, _)
StringLess(a, b) ==
    IF b = << >> THEN FALSE
    ELSE IF a = << >> THEN TRUE
    ELSE IF Head(a) # Head(b) THEN ByteValue(Head(a)) < ByteValue(Head(b))
    ELSE StringLess(Tail(a), Tail(b))

\* sort.Strings over the keys of a map
RECURSIVE SortStrings(_)
SortStrings(S) ==
    IF S = {} THEN << >>
    ELSE LET m == CHOOSE x \in S : \A y \in S \ {x} : StringLess(x, y)
         IN  <<m>> \o SortStrings(S \ {m})

\* s[from:] with a 1-based first index
Drop(s, n) == SubSeq(s, n + 1, Len(s))

\* index of the first occurrence of ch at or after position from, 0 if none
RECURSIVE IndexFrom(_, _, _)
IndexFrom(s, ch, from) ==
    IF from > Len(s) THEN 0
    ELSE IF s[from] = ch THEN from
    ELSE IndexFrom(s, ch, from + 1)

\* strings.Split-like: the pieces of s between occurrences of sep
RECURSIVE SplitOn(_, _)
SplitOn(s, sep) ==
    LET i == IndexFrom(s, sep, 1)
    IN  IF i = 0 THEN <<s>>
        ELSE <<SubSeq(s, 1, i - 1)>> \o SplitOn(Drop(s, i), sep)

(* ---------------- param.go: the value validator ---------------- *)
ErrNone == "nil"
ErrParamValueMissing == "param value missing"
ErrParamValueInvalid == "param value invalid"
ErrParamTypeInvalid == "param type invalid"
ErrFileNotExist == "file does not exist"
ErrFileInfo == "file cannot be opened for stat info"
ErrFileExist == "file already exists"
ErrFileNotRegularFile == "file is not a regular file"
ErrFileNotDirectory == "file is not a directory"
ErrFileOpen == "file cannot be opened"
ErrFileNotValidJSON == "file is not a valid JSON"

\* what os.Stat and os.ReadFile find: the paths that exist, with the kind of
\* the entry, whether it can be read and whether its content is valid JSON
FileSystem ==
    ( <<"f">> :> [kind |-> "regular", readable |-> TRUE, json |-> TRUE] ) @@
    ( <<"g">> :> [kind |-> "regular", readable |-> TRUE, json |-> FALSE] ) @@
    ( <<"u">> :> [kind |-> "regular", readable |-> FALSE, json |-> FALSE] ) @@
    ( <<"d">> :> [kind |-> "dir", readable |-> FALSE, json |-> FALSE] ) @@
    ( <<"e">> :> [kind |-> "staterr", readable |-> FALSE, json |-> FALSE] )

\* a JSON check that does not ask for a regular file
checksJSONAlways(p) == HasBit(p.flags, IsValidJSON)

\* validatePathFile line 107: the content is read and checked
checksJSON(p) == HasBit(p.flags, IsRegularFile) /\ HasBit(p.flags, IsValidJSON)

validatePathFile(p, path) ==
    IF path \notin DOMAIN FileSystem
    THEN IF HasBit(p.flags, IsExistent) THEN ErrFileNotExist ELSE ErrNone
    ELSE LET fileInfo == FileSystem[path]
         IN  IF fileInfo.kind = "staterr" THEN ErrFileInfo
             ELSE IF HasBit(p.flags, IsNotExistent) THEN ErrFileExist
             ELSE IF fileInfo.kind # "regular" /\ HasBit(p.flags, IsRegularFile)
                  THEN ErrFileNotRegularFile
             ELSE IF fileInfo.kind # "dir" /\ HasBit(p.flags, IsDirectory)
                  THEN ErrFileNotDirectory
             ELSE IF checksJSON(p)
                  THEN IF ~fileInfo.readable THEN ErrFileOpen
                       ELSE IF ~fileInfo.json THEN ErrFileNotValidJSON
                       ELSE ErrNone
             ELSE ErrNone

AllIn(s, chars) == \A i \in 1..Len(s) : s[i] \in chars

\* [0-9]+
MatchInt(s) == Len(s) >= 1 /\ AllIn(s, Digits)

\* a float pattern without the repetition limits: [0-9]+\.[0-9]+
MatchFloatUnbounded(s) ==
    LET dot == IndexFrom(s, ".", 1)
    IN  /\ dot # 0
        /\ dot - 1 >= 1
        /\ Len(s) - dot >= 1
        /\ AllIn(SubSeq(s, 1, dot - 1), Digits)
        /\ AllIn(Drop(s, dot), Digits)

\* [0-9]{1,16}\.[0-9]{1,16}
MatchFloat(s) ==
    LET dot == IndexFrom(s, ".", 1)
    IN  /\ dot # 0
        /\ dot - 1 >= 1 /\ dot - 1 <= 16
        /\ Len(s) - dot >= 1 /\ Len(s) - dot <= 16
        /\ AllIn(SubSeq(s, 1, dot - 1), Digits)
        /\ AllIn(Drop(s, dot), Digits)

\* the characters of the class [0-9a-zA-Z<reExtraChars>]
reExtraChars(p) ==
    (IF HasBit(p.flags, AllowUnderscore) THEN {"_"} ELSE {}) \cup
    (IF HasBit(p.flags, AllowDots) THEN {"."} ELSE {}) \cup
    (IF HasBit(p.flags, AllowHyphen) THEN {"-"} ELSE {})

MatchAlphanumeric(p, s) ==
    Len(s) >= 1 /\ AllIn(s, Digits \cup Letters \cup reExtraChars(p))

\* the unit pattern reType of the parameter's type
MatchType(p, s) ==
    IF p.valueType = TypeInt THEN MatchInt(s)
    ELSE IF p.valueType = TypeFloat THEN MatchFloat(s)
    ELSE MatchAlphanumeric(p, s)

\* a delimeter choice that prefers the semicolon to the colon
delimeterSemiColonFirst(p) ==
    IF HasBit(p.flags, SeparatorSemiColon) THEN ";"
    ELSE IF HasBit(p.flags, SeparatorColon) THEN ":"
    ELSE ","

delimeter(p) ==
    IF HasBit(p.flags, SeparatorColon) THEN ":"
    ELSE IF HasBit(p.flags, SeparatorSemiColon) THEN ";"
    ELSE ","

\* regexp.MatchString(reValue, paramValue): ^reType(delimeter reType)*$ or ^reType$
\* (no unit pattern can match a delimeter, so the units are the pieces between them)
MatchValue(p, paramValue) ==
    IF HasBit(p.flags, AllowMultipleValues)
    THEN LET units == SplitOn(paramValue, delimeter(p))
         IN  \A i \in 1..Len(units) : MatchType(p, units[i])
    ELSE MatchType(p, paramValue)

\* a string shortcut that leaves a string asking for JSON to the later checks
isPlainStringNoJSON(p) == p.valueType = TypeString /\ ~HasBit(p.flags, IsValidJSON)

\* validateValue line 130: a string needs no check after the one for a missing value
isPlainString(p) == p.valueType = TypeString

\* a shortcut for the empty optional value that is taken for the known types only
isEmptyOptionalKnownType(p, paramValue) ==
    /\ ~HasBit(p.flags, IsRequired)
    /\ paramValue = EmptyString
    /\ p.valueType \in {TypeInt, TypeFloat, TypeAlphanumeric, TypePathFile}

\* validateValue line 135: the param is not required and the value is empty
isEmptyOptional(p, paramValue) == ~HasBit(p.flags, IsRequired) /\ paramValue = EmptyString

\* a switch that gives a boolean the pattern of its last case
hasPatternOrBool(p) == p.valueType \in {TypeInt, TypeFloat, TypeAlphanumeric, TypeBool}

\* validateValue lines 155-178: the switch has a case for the type
hasPattern(p) == p.valueType \in {TypeInt, TypeFloat, TypeAlphanumeric}

validateValue(p, paramValue) ==
    IF p.valueType # TypeBool /\ HasBit(p.flags, IsRequired) /\ paramValue = EmptyString
    THEN ErrParamValueMissing
    ELSE IF isPlainString(p) THEN ErrNone
    ELSE IF isEmptyOptional(p, paramValue) THEN ErrNone
    ELSE IF p.valueType = TypePathFile THEN validatePathFile(p, paramValue)
    ELSE IF ~hasPattern(p) THEN ErrParamTypeInvalid
    ELSE IF ~MatchValue(p, paramValue) THEN ErrParamValueInvalid
    ELSE ErrNone

(* ---------------- the registry the engine runs on ---------------- *)
\* names, as Go strings
sCmd == <<"c", "m", "d">>
sRun == <<"r", "u", "n">>
sText == <<"t", "e", "x", "t">>
sAnum == <<"a", "n", "u", "m">>
sName == <<"n", "a", "m", "e">>
sReq == <<"r", "e", "q">>
sBool == <<"b", "o", "o", "l">>
sNb == <<"n", "b">>
sMk == <<"m", "k">>
sOpt == <<"o", "p", "t">>
sZz == <<"z", "z">>
sNum == <<"n", "u", "m">>
sOut == <<"o", "u", "t">>
sIn == <<"i", "n">>
sG == <<"G">>
sE == <<"E">>

NoOnTrue == [set |-> FALSE, adds |-> << >>]

\* OnTrue(func(c *Command) { c.<kind>[<name>].flags |= <bit> })
OnTrue(kind, name, bit) ==
    [set |-> TRUE, adds |-> <<[kind |-> kind, name |-> name, bit |-> bit]>>]

\* the param a Flag, Arg or Env call stores
NewParam(name, alias, types, flags, onTrue) ==
    [name |-> name, alias |-> alias, valueType |-> types, flags |-> flags,
     options |-> [onTrue |-> onTrue]]

\* the param Command.Arg stores: no alias, and the placeholder the help and the
\* error lines show
NewArg(name, valuePlaceholder, types, flags) ==
    [name |-> name, alias |-> EmptyString, valuePlaceholder |-> valuePlaceholder,
     valueType |-> types, flags |-> flags, options |-> [onTrue |-> NoOnTrue]]

\* Broccli.Command followed by the Flag, Arg and Env calls of the definition:
\*   cmd: text/t String Required; anum/a Alphanumeric AllowDots; name String, no alias;
\*        req/r Bool whose hook makes anum Required; bool/b Bool declared Required;
\*        nb Bool, no alias, no hook; one optional Int argument; env var E declared
\*        with no constraint; an onPostValidation hook
\*   run: opt/o String; mk/m Bool whose hook makes opt Required; zz Bool, no alias,
\*        whose hook makes the argument in Required; optional arguments out, then
\*        in; no env var; no onPostValidation hook
Registry ==
    ( sCmd :> [name |-> sCmd,
               flags |-> ( sText :> NewParam(sText, <<"t">>, TypeString, IsRequired, NoOnTrue) ) @@
                         ( sAnum :> NewParam(sAnum, <<"a">>, TypeAlphanumeric, AllowDots, NoOnTrue) ) @@
                         ( sName :> NewParam(sName, EmptyString, TypeString, 0, NoOnTrue) ) @@
                         ( sReq :> NewParam(sReq, <<"r">>, TypeBool, 0, OnTrue("flags", sAnum, IsRequired)) ) @@
                         ( sBool :> NewParam(sBool, <<"b">>, TypeBool, IsRequired, NoOnTrue) ) @@
                         ( sNb :> NewParam(sNb, EmptyString, TypeBool, 0, NoOnTrue) ),
               args |-> ( sNum :> NewArg(sNum, <<"N", "U", "M">>, TypeInt, 0) ),
               argsOrder |-> <<sNum>>,
               argsIdx |-> 1,
               env |-> ( sE :> NewParam(sE, EmptyString, TypeString, 0, NoOnTrue) ),
               options |-> [onPostValidation |-> TRUE]] ) @@
    ( sRun :> [name |-> sRun,
               flags |-> ( sOpt :> NewParam(sOpt, <<"o">>, TypeString, 0, NoOnTrue) ) @@
                         ( sMk :> NewParam(sMk, <<"m">>, TypeBool, 0, OnTrue("flags", sOpt, IsRequired)) ) @@
                         ( sZz :> NewParam(sZz, EmptyString, TypeBool, 0, OnTrue("args", sIn, IsRequired)) ),
               args |-> ( sOut :> NewArg(sOut, <<"O", "U", "T">>, TypeString, 0) ) @@
                        ( sIn :> NewArg(sIn, <<"I", "N">>, TypeString, 0) ),
               argsOrder |-> <<sOut, sIn>>,
               argsIdx |-> 2,
               env |-> << >>,
               options |-> [onPostValidation |-> FALSE]] )

\* Broccli.Env(name, usage): a global env var, always declared Required
GlobalEnv == ( sG :> [name |-> sG, alias |-> EmptyString, valueType |-> TypeString,
                      flags |-> IsRequired, options |-> [onTrue |-> NoOnTrue]] )

(* ---------------- cmd.go: orderings ---------------- *)
sortedFlags(cmd) == SortStrings(DOMAIN cmd.flags)

sortedCommands(cmds) == SortStrings(DOMAIN cmds)

RECURSIVE SelectArgs(_, _, _)
SelectArgs(cmd, argIdx, required) ==
    IF argIdx > cmd.argsIdx THEN << >>
    ELSE LET argOrderedName == cmd.argsOrder[argIdx]
             arg == cmd.args[argOrderedName]
         IN  (IF HasBit(arg.flags, IsRequired) = required THEN <<argOrderedName>> ELSE << >>)
             \o SelectArgs(cmd, argIdx + 1, required)

\* an ordering that is the declaration order
sortedArgsDeclared(cmd) == SubSeq(cmd.argsOrder, 1, cmd.argsIdx)

\* required args first, then optional args, each in declaration order
sortedArgs(cmd) == SelectArgs(cmd, 1, TRUE) \o SelectArgs(cmd, 1, FALSE)

(* ---------------- the standard flag package, as getFlagSetPtrs uses it ---------------- *)
sTrue == <<"t", "r", "u", "e">>
sFalse == <<"f", "a", "l", "s", "e">>
sHelp == <<"h", "e", "l", "p">>

\* strconv.ParseBool, which a boolean flag given as -name=value goes through
ParseBool(str) ==
    IF str \in {<<"1">>, <<"t">>, <<"T">>, <<"T", "R", "U", "E">>, sTrue, <<"T", "r", "u", "e">>}
    THEN "true"
    ELSE IF str \in {<<"0">>, <<"f">>, <<"F">>, <<"F", "A", "L", "S", "E">>, sFalse,
                     <<"F", "a", "l", "s", "e">>}
    THEN "false"
    ELSE "error"

PErrNone == "nil"
PErrBadSyntax == "bad flag syntax"
PErrNotDefined == "flag provided but not defined"
PErrHelp == "flag: help requested"
PErrBadBool == "invalid boolean value"
PErrNeedsArg == "flag needs an argument"

\* a terminator that stays among the arguments left
afterTerminatorKept(args) == args

\* FlagSet.Parse on "--": the terminator is dropped, what follows it is left
afterTerminator(args) == Tail(args)

\* FlagSet.Parse: parseOne repeated until a non-flag token, "--", the end or an error.
\* formal maps each defined name to TRUE for a boolean flag, FALSE for a string flag;
\* vals holds the value behind each pointer fset.Bool / fset.String returned.
RECURSIVE fsetParse(_, _, _)
fsetParse(formal, vals, args) ==
    IF args = << >> THEN [vals |-> vals, args |-> args, err |-> PErrNone]
    ELSE
    LET s == Head(args) IN
    IF Len(s) < 2 \/ s[1] # "-" THEN [vals |-> vals, args |-> args, err |-> PErrNone]
    ELSE
    LET numMinuses == IF s[2] = "-" THEN 2 ELSE 1 IN
    IF numMinuses = 2 /\ Len(s) = 2
    THEN [vals |-> vals, args |-> afterTerminator(args), err |-> PErrNone]
    ELSE
    LET name0 == Drop(s, numMinuses) IN
    IF Len(name0) = 0 \/ name0[1] = "-" \/ name0[1] = "="
    THEN [vals |-> vals, args |-> args, err |-> PErrBadSyntax]
    ELSE
    LET eq == IndexFrom(name0, "=", 2)
        hasValue0 == eq # 0
        value0 == IF hasValue0 THEN Drop(name0, eq) ELSE EmptyString
        name == IF hasValue0 THEN SubSeq(name0, 1, eq - 1) ELSE name0
        args1 == Tail(args)
    IN
    IF name \notin DOMAIN formal
    THEN [vals |-> vals, args |-> args1,
          err |-> IF name = sHelp \/ name = <<"h">> THEN PErrHelp ELSE PErrNotDefined]
    ELSE IF formal[name]
    THEN \* a boolean flag does not take the next token
         IF hasValue0
         THEN IF ParseBool(value0) = "error"
              THEN [vals |-> vals, args |-> args1, err |-> PErrBadBool]
              ELSE fsetParse(formal, [vals EXCEPT ![name] = (ParseBool(value0) = "true")], args1)
         ELSE fsetParse(formal, [vals EXCEPT ![name] = TRUE], args1)
    ELSE \* a string flag takes its value from -name=value or from the next token
         IF hasValue0 THEN fsetParse(formal, [vals EXCEPT ![name] = value0], args1)
         ELSE IF args1 # << >>
              THEN fsetParse(formal, [vals EXCEPT ![name] = Head(args1)], Tail(args1))
              ELSE [vals |-> vals, args |-> args1, err |-> PErrNeedsArg]

(* ---------------- cli.go: the engine ---------------- *)
ParamFlag == "Flag"
ParamArg == "Argument"
ParamEnvVar == "Env var"

\* what a Run did, in order: one record per observable step
Event(ev, name, value, err) ==
    [ev |-> ev, name |-> name, value |-> value, err |-> err, code |-> 0]

\* fmt.Fprintf(os.Stderr, "ERROR: <category> <name>: <err>")
ErrorLine(category, name, err) == Event("stderr", name, EmptyString, category)

\* os.Getenv: the empty string for a variable that is not set
Getenv(environment, name) ==
    IF name \in DOMAIN environment THEN environment[name] ELSE EmptyString

\* the names/aliases getFlagSetPtrs defines on the flag set
FlagSetNames(cmd) ==
    DOMAIN cmd.flags \cup
    {cmd.flags[n].alias : n \in {m \in DOMAIN cmd.flags : cmd.flags[m].alias # EmptyString}}

\* getFlagSetPtrs: define every flag and every non-empty alias, parse os.Args[2:].
\* flag.FlagSet panics when a name is defined twice.
getFlagSetPtrs(cmd, args) ==
    LET aliased == {n \in DOMAIN cmd.flags : cmd.flags[n].alias # EmptyString}
        aliases == {cmd.flags[n].alias : n \in aliased}
        byAlias(a) == CHOOSE n \in aliased : cmd.flags[n].alias = a
        isBool(n) == cmd.flags[n].valueType = TypeBool
        formal == [x \in FlagSetNames(cmd) |->
                     IF x \in DOMAIN cmd.flags THEN isBool(x) ELSE isBool(byAlias(x))]
        zero == [x \in FlagSetNames(cmd) |-> IF formal[x] THEN FALSE ELSE EmptyString]
        parsed == fsetParse(formal, zero, args)
    IN  IF Cardinality(FlagSetNames(cmd)) # Cardinality(DOMAIN cmd.flags) + Cardinality(aliased)
        THEN [panic |-> TRUE, nflags |-> << >>, aflags |-> << >>, args |-> << >>, err |-> PErrNone]
        ELSE [panic |-> FALSE,
              nflags |-> [n \in DOMAIN cmd.flags |-> parsed.vals[n]],
              aflags |-> [a \in aliases |-> parsed.vals[a]],
              args |-> parsed.args,
              err |-> parsed.err]

\* m[k] = v on a Go map
MapSet(m, k, v) == [x \in DOMAIN m \cup {k} |-> IF x = k THEN v ELSE m[x]]

\* the state a Run works on: the Broccli fields, what the Run has done so far
\* (log), and how it ended (status, exit)
Logged(st, e) == [st EXCEPT !.log = Append(@, e)]

Returned(st, code) == [st EXCEPT !.status = "returned", !.exit = code]

Panicked(st) == [st EXCEPT !.status = "panicked"]

\* an env check that validates under the declared constraints
forceRequiredNot(p) == p

\* param.flags |= IsRequired (Run line 116, checkEnv line 287)
forceRequired(p) == [p EXCEPT !.flags = OrBit(@, IsRequired)]

\* Run lines 118-130, checkEnv lines 289-302: the result err of validating the
\* env var; an error is printed with the help (help) and ends Run with 1
envValidated(st, name, envValue, err, help) ==
    IF err # ErrNone
    THEN Returned(Logged(Logged(Logged(st, Event("env", name, envValue, err)),
                                ErrorLine(ParamEnvVar, name, err)), help), 1)
    ELSE Logged(st, Event("env", name, envValue, err))

\* Run line 118: param.validateValue(envValue), param now being Required
validateGlobalEnv(st, name, envValue) ==
    envValidated(st, name, envValue, validateValue(st.env[name], envValue),
                 Event("printHelp", EmptyString, EmptyString, ErrNone))

\* Run lines 113-132: the global env vars, in the order the map iteration yields;
\* a failed validation returns from Run
RECURSIVE checkGlobalEnv(_, _, _, _)
checkGlobalEnv(st, order, i, environment) ==
    IF st.status # "running" \/ i > Len(order) THEN st
    ELSE checkGlobalEnv(
             validateGlobalEnv([st EXCEPT !.env[order[i]] = forceRequired(@)],
                               order[i], Getenv(environment, order[i])),
             order, i + 1, environment)

\* checkEnv line 289: envVar.validateValue(envValue), envVar now being Required
validateEnv(st, cmdName, envName, envValue) ==
    envValidated(st, envName, envValue,
                 validateValue(st.commands[cmdName].env[envName], envValue),
                 Event("cmdHelp", cmdName, EmptyString, ErrNone))

\* checkEnv: the env vars of the command, in the order the map iteration yields
RECURSIVE checkEnv(_, _, _, _, _)
checkEnv(st, cmdName, order, i, environment) ==
    IF st.status # "running" \/ i > Len(order) THEN st
    ELSE checkEnv(
             validateEnv([st EXCEPT !.commands[cmdName].env[order[i]] = forceRequired(@)],
                         cmdName, order[i], Getenv(environment, order[i])),
             cmdName, order, i + 1, environment)

\* the body of a hook: c.<kind>[<name>].flags |= <bit>, for each of its statements
RECURSIVE applyOnTrue(_, _, _)
applyOnTrue(cmd, adds, i) ==
    IF i > Len(adds) THEN cmd
    ELSE LET a == adds[i]
         IN  applyOnTrue(IF a.kind = "flags"
                         THEN [cmd EXCEPT !.flags[a.name].flags = OrBit(@, a.bit)]
                         ELSE [cmd EXCEPT !.args[a.name].flags = OrBit(@, a.bit)],
                         adds, i + 1)

\* processOnTrue line 324: *(nflags[name]).(*bool) || *(aflags[alias]).(*bool); the
\* assertion on aflags[alias] panics when no such alias was defined on the flag set
onTrueCondition(flag, nflags, aflags) ==
    IF nflags[flag.name] THEN "true"
    ELSE IF flag.alias \notin DOMAIN aflags THEN "panic"
    ELSE IF aflags[flag.alias] THEN "true"
    ELSE "false"

\* processOnTrue lines 324-326: the hook is called when the condition is true
callOnTrue(st, cmdName, flag, cond) ==
    IF cond = "panic" THEN Panicked(st)
    ELSE IF cond = "true"
    THEN Logged([st EXCEPT !.commands[cmdName] = applyOnTrue(@, flag.options.onTrue.adds, 1)],
                Event("onTrue", flag.name, EmptyString, ErrNone))
    ELSE st

\* processOnTrue lines 313-327: one round of the loop
processOnTrueFlag(st, cmdName, flag, nflags, aflags) ==
    IF flag.valueType # TypeBool THEN st
    ELSE IF ~flag.options.onTrue.set THEN st
    ELSE callOnTrue(st, cmdName, flag, onTrueCondition(flag, nflags, aflags))

RECURSIVE processOnTrue(_, _, _, _, _, _)
processOnTrue(st, cmdName, flagNames, i, nflags, aflags) ==
    IF st.status # "running" \/ i > Len(flagNames) THEN st
    ELSE processOnTrue(
             processOnTrueFlag(st, cmdName, st.commands[cmdName].flags[flagNames[i]],
                               nflags, aflags),
             cmdName, flagNames, i + 1, nflags, aflags)

\* a merged result that looks at the long form only
boolFlagValueLongOnly(flag, nflags, aflags) ==
    IF nflags[flag.name] THEN sTrue ELSE sFalse

\* processFlags lines 340-344: the merged result of a boolean flag
boolFlagValue(flag, nflags, aflags) ==
    IF nflags[flag.name] \/ (flag.alias # EmptyString /\ aflags[flag.alias])
    THEN sTrue ELSE sFalse

\* processFlags lines 350-353
aliasValueOf(flag, aflags) ==
    IF flag.alias # EmptyString THEN aflags[flag.alias] ELSE EmptyString

\* processFlags line 357
bothPassed(nameValue, aliasValue) == nameValue # EmptyString /\ aliasValue # EmptyString

\* a resolution that never falls back to the alias
flagValueOfLongOnly(nameValue, aliasValue) == nameValue

\* processFlags lines 363-366
flagValueOf(nameValue, aliasValue) ==
    IF nameValue # EmptyString THEN nameValue ELSE aliasValue

\* processFlags lines 339, 343, 383: c.parsedFlags[name] = value
setParsedFlag(st, name, value) ==
    Logged([st EXCEPT !.parsedFlags = MapSet(@, name, value)],
           Event("setFlag", name, value, ErrNone))

\* processFlags lines 368-383: the result err of flag.validateValue(flagValue)
flagValidated(st, cmdName, name, flagValue, err) ==
    IF err # ErrNone
    THEN Returned(Logged(Logged(Logged(st, Event("flag", name, flagValue, err)),
                                ErrorLine(ParamFlag, name, err)),
                         Event("cmdHelp", cmdName, EmptyString, ErrNone)), 1)
    ELSE setParsedFlag(Logged(st, Event("flag", name, flagValue, err)), name, flagValue)

\* processFlags lines 363-368
validateFlag(st, cmdName, name, flag, flagValue) ==
    flagValidated(st, cmdName, name, flagValue, validateValue(flag, flagValue))

\* processFlags lines 357-366: the conflict of forms, else the value to validate
resolveFlag(st, cmdName, name, flag, nameValue, aliasValue) ==
    IF bothPassed(nameValue, aliasValue)
    THEN Returned(Logged(st, Event("conflict", name, EmptyString, ErrNone)), 1)
    ELSE validateFlag(st, cmdName, name, flag, flagValueOf(nameValue, aliasValue))

\* processFlags lines 336-384: one round of the loop
processFlag(st, cmdName, name, flag, nflags, aflags) ==
    IF flag.valueType = TypeBool
    THEN setParsedFlag(st, name, boolFlagValue(flag, nflags, aflags))
    ELSE resolveFlag(st, cmdName, name, flag, nflags[name], aliasValueOf(flag, aflags))

RECURSIVE processFlags(_, _, _, _, _, _)
processFlags(st, cmdName, flagNames, i, nflags, aflags) ==
    IF st.status # "running" \/ i > Len(flagNames) THEN st
    ELSE processFlags(
             processFlag(st, cmdName, flagNames[i], st.commands[cmdName].flags[flagNames[i]],
                         nflags, aflags),
             cmdName, flagNames, i + 1, nflags, aflags)

\* a binding that loses the last token
argValueAtShort(args, argIdx) ==
    IF Len(args) > argIdx THEN args[argIdx] ELSE EmptyString

\* processArgs lines 390-393: the token at the position of the argument (argIdx
\* counts from 1 here), the empty string when there is none
argValueAt(args, argIdx) ==
    IF Len(args) >= argIdx THEN args[argIdx] ELSE EmptyString

\* a validation that records the value of the argument whatever the result
argValidatedRecordsAlways(st, cmdName, argName, argValue, err) ==
    IF err # ErrNone
    THEN Returned(Logged(Logged(Logged([st EXCEPT !.parsedArgs = MapSet(@, argName, argValue)],
                                       Event("arg", argName, argValue, err)),
                                ErrorLine(ParamArg, st.commands[cmdName].args[argName].valuePlaceholder, err)),
                         Event("cmdHelp", cmdName, EmptyString, ErrNone)), 1)
    ELSE Logged([Logged(st, Event("arg", argName, argValue, err))
                     EXCEPT !.parsedArgs = MapSet(@, argName, argValue)],
                Event("setArg", argName, argValue, ErrNone))

\* processArgs lines 397-410: the result err of validating the argument
argValidated(st, cmdName, argName, argValue, err) ==
    IF err # ErrNone
    THEN Returned(Logged(Logged(Logged(st, Event("arg", argName, argValue, err)),
                                ErrorLine(ParamArg, st.commands[cmdName].args[argName].valuePlaceholder, err)),
                         Event("cmdHelp", cmdName, EmptyString, ErrNone)), 1)
    ELSE Logged([Logged(st, Event("arg", argName, argValue, err))
                     EXCEPT !.parsedArgs = MapSet(@, argName, argValue)],
                Event("setArg", argName, argValue, ErrNone))

\* processArgs lines 390-410: one round of the loop
processArg(st, cmdName, argName, argValue) ==
    argValidated(st, cmdName, argName, argValue,
                 validateValue(st.commands[cmdName].args[argName], argValue))

RECURSIVE processArgs(_, _, _, _, _)
processArgs(st, cmdName, argNamesSorted, argIdx, args) ==
    IF st.status # "running" \/ argIdx > Len(argNamesSorted) THEN st
    ELSE processArgs(
             processArg(st, cmdName, argNamesSorted[argIdx], argValueAt(args, argIdx)),
             cmdName, argNamesSorted, argIdx + 1, args)

\* flagNamePtrs, flagAliasPtrs and args, the locals of parseFlags
NoPointers == [parsed |-> FALSE, nflags |-> << >>, aflags |-> << >>, args |-> << >>]

Pointers(fs) == [parsed |-> TRUE, nflags |-> fs.nflags, aflags |-> fs.aflags, args |-> fs.args]

\* an ordering that is the one of the declarations, whatever the hooks added
argsNamesSortedAsDeclared(st, cmdName) == sortedArgsDeclared(st.commands[cmdName])

\* parseFlags line 449: cmd.sortedArgs(), called once the hooks and the flags
\* are through
argsNamesSorted(st, cmdName) == sortedArgs(st.commands[cmdName])

\* parseFlags lines 449-452: sortedArgs, then processArgs
processArgsSorted(st, cmdName, args) ==
    IF st.status # "running" THEN st
    ELSE processArgs(st, cmdName, argsNamesSorted(st, cmdName), 1, args)

\* parseFlags lines 437-452, the flag set being parsed: processOnTrue,
\* processFlags, then processArgs over the ordering computed after them
parseFlagSet(st, cmdName, flags, fs) ==
    IF fs.panic THEN Panicked(st)
    ELSE processArgsSorted(
             processFlags(
                 processOnTrue(Logged([st EXCEPT !.fs = Pointers(fs)],
                                      Event("parse", cmdName, EmptyString, fs.err)),
                               cmdName, flags, 1, fs.nflags, fs.aflags),
                 cmdName, flags, 1, fs.nflags, fs.aflags),
             cmdName, fs.args)

\* parseFlags lines 433-438: checkEnv returned, sortedFlags and getFlagSetPtrs
parseFlagsChecked(st, cmdName, args) ==
    IF st.status # "running" THEN st
    ELSE parseFlagSet(st, cmdName, sortedFlags(st.commands[cmdName]),
                      getFlagSetPtrs(st.commands[cmdName], args))

\* parseFlags lines 431-452: checkEnv to processArgs; a stage that returned or
\* panicked ends the function.  Status "running" at the end: every stage passed
\* and processOnPostValidation is next.
parseFlags(st, cmdName, args, environment, envOrder) ==
    parseFlagsChecked(checkEnv(st, cmdName, envOrder, 1, environment), cmdName, args)

sDashH == <<"-", "h">>
sDashDashHelp == <<"-", "-", "h", "e", "l", "p">>

\* a help test that knows the short form only
IsHelpShortOnly(token) == token = sDashH

\* the test os.Args[i] == "-h" || os.Args[i] == "--help"
IsHelp(token) == token = sDashH \/ token = sDashDashHelp

\* a match that accepts a token that is a prefix of the command name
commandMatchesPrefix(commandName, token) ==
    Len(token) <= Len(commandName) /\ token = SubSeq(commandName, 1, Len(token))

\* Run line 102: commandName != os.Args[1]
commandMatches(commandName, token) == commandName = token

\* Run lines 112-135: the global env vars were checked, parseFlags is next
runChecked(st, commandName, args, environment, envOrder) ==
    IF st.status # "running" THEN st
    ELSE parseFlags(st, commandName, args, environment, envOrder)

\* Run lines 105-135, for the command the loop matched: command help, the global
\* env vars, parseFlags up to processArgs
runCommand(st, commandName, argv, environment, globalOrder, envOrder) ==
    IF Len(argv) > 2 /\ IsHelp(argv[3])
    THEN Returned(Logged(st, Event("cmdHelp", commandName, EmptyString, ErrNone)), 0)
    ELSE runChecked(checkGlobalEnv(st, globalOrder, 1, environment), commandName,
                    Drop(argv, 2), environment, envOrder)

RECURSIVE runLoop(_, _, _, _, _, _, _)
runLoop(st, names, i, argv, environment, globalOrder, envOrders) ==
    IF i > Len(names)
    THEN \* command not found
         Returned(Logged(Logged(st, Event("invalidCommand", argv[2], EmptyString, ErrNone)),
                         Event("printHelp", EmptyString, EmptyString, ErrNone)), 1)
    ELSE IF ~commandMatches(names[i], argv[2])
    THEN runLoop(st, names, i + 1, argv, environment, globalOrder, envOrders)
    ELSE runCommand([st EXCEPT !.cmd = names[i]], names[i], argv, environment, globalOrder,
                    envOrders[names[i]])

\* Broccli.Run on os.Args = argv (argv[1] is the binary, argv[2] the command token),
\* up to the first call of user code after validation
BroccliRun(st, argv, environment, globalOrder, envOrders) ==
    IF Len(argv) < 2 \/ IsHelp(argv[2])
    THEN Returned(Logged(st, Event("printHelp", EmptyString, EmptyString, ErrNone)), 0)
    ELSE runLoop(st, sortedCommands(st.commands), 1, argv, environment, globalOrder, envOrders)

\* a Run that goes on to the handler whenever it matched a command
dispatchesAfterFailure(st) == st.status # "panicked" /\ st.cmd # EmptyString

\* Run lines 135-138: parseFlags returned 0, the handler is next
dispatches(st) == st.status = "running"

\* processOnPostValidation line 416
hasOnPostValidation(cmd) == cmd.options.onPostValidation

\* a hook whose error is ignored
postValidationExitIgnored(hookFailed) == 0

\* processOnPostValidation lines 420-428: 1 when the hook returned an error, else 0
postValidationExit(hookFailed) == IF hookFailed THEN 1 ELSE 0

\* a Run that maps the handler's result to 0 or 1
handlerResultClamped(ret) == IF ret > 0 THEN 1 ELSE 0

\* Run line 140: the handler's result is Run's result
handlerResult(ret) == ret

(* ---------------- the process: invocations and Run ---------------- *)
Short(n) == <<"-">> \o n
Long(n) == <<"-", "-">> \o n
Assign(f, v) == f \o <<"=">> \o v

sProg == <<"t", "e", "s", "t">>

\* tokens that may follow the command name cmd
CmdTokens ==
    { Assign(Short(<<"t">>), <<"x">>), Assign(Long(sText), <<"y">>),
      Assign(Short(<<"a">>), <<"z">>), Assign(Long(sAnum), <<"w">>),
      Assign(Long(sName), <<"v">>),
      Short(<<"r">>), Short(<<"b">>), Long(sNb),
      <<"7">>, <<"p">>, sDashH, sDashDashHelp }

\* tokens that may follow the command name run: among them a flag without its
\* value, a flag that is not declared and the terminator
RunTokens ==
    { Short(<<"m">>), Long(sZz), Assign(Short(<<"o">>), <<"v">>), Assign(Long(sOpt), <<"u">>),
      <<"p">>, sDashDashHelp, Long(sOpt), Short(<<"q">>), <<"-", "-">> }

\* tokens that may follow a first token that is no command name
OtherTokens == { sDashH, <<"p">> }

\* first tokens: the two commands, a strict prefix of one, one in another letter
\* case, one extended by a letter, and the two help requests
CommandTokens ==
    { sCmd, sRun, <<"c", "m">>, <<"C", "m", "d">>, <<"r", "u", "n", "s">>,
      sDashH, sDashDashHelp }

TokensAfter(token) ==
    IF token = sCmd THEN CmdTokens ELSE IF token = sRun THEN RunTokens ELSE OtherTokens

SeqsUpTo(S, n) == UNION {[1..k -> S] : k \in 0..n}

\* the values os.Args can take: the binary alone, or the binary, a first token
\* and up to MaxTail further tokens
Invocations ==
    { <<sProg>> } \cup
    UNION { { <<sProg, c>> \o tail : tail \in SeqsUpTo(TokensAfter(c), MaxTail) } :
            c \in CommandTokens }

\* the values the two env vars can have in the OS environment ("" is unset or empty)
Environments == [ {sG, sE} -> { EmptyString, <<"v">> } ]

\* what a handler may return
HandlerReturns == {0, 1, 2, 3}

\* the orders in which ranging over a Go map can yield its keys
MapOrders(m) ==
    { o \in [1..Cardinality(DOMAIN m) -> DOMAIN m] :
        \A i, j \in 1..Cardinality(DOMAIN m) : i # j => o[i] # o[j] }

\* no command is under definition
NoDefinition == [status |-> "none"]

\* no parameter is under validation
NoValidation == [status |-> "none"]

\* the variables one Run of the process leaves alone
others == <<runs, defining, validating>>

\* the registry is defined and Run has not been called
InitRun ==
    /\ commands = Registry
    /\ env = GlobalEnv
    /\ parsedFlags = << >>
    /\ parsedArgs = << >>
    /\ osArgs = <<sProg>>
    /\ environ = [n \in {sG, sE} |-> EmptyString]
    /\ pc = "idle"
    /\ current = EmptyString
    /\ flagset = NoPointers
    /\ exitCode = 0
    /\ log = << >>
    /\ runs = 0

Init ==
    /\ InitRun
    /\ defining = NoDefinition
    /\ validating = NoValidation

\* the process is started with its arguments and its environment
Exec ==
    /\ pc = "idle"
    /\ \E argv \in Invocations, environment \in Environments :
          /\ osArgs' = argv
          /\ environ' = environment
    /\ pc' = "ready"
    /\ UNCHANGED <<commands, env, parsedFlags, parsedArgs, current, flagset, exitCode, log>>

\* what Run leaves behind when it got to st: the fields of Broccli, the exit code
\* if it returned, and where it goes on
RunEnds(st) ==
    /\ commands' = st.commands
    /\ env' = st.env
    /\ parsedFlags' = st.parsedFlags
    /\ parsedArgs' = st.parsedArgs
    /\ log' = st.log
    /\ exitCode' = st.exit
    /\ current' = st.cmd
    /\ flagset' = st.fs
    /\ pc' = IF ~dispatches(st) THEN st.status
             ELSE IF hasOnPostValidation(st.commands[st.cmd]) THEN "post"
             ELSE "handler"

\* Broccli.Run from its first line to the end of processArgs: it returns (help,
\* unknown command, a failed check), panics, or goes on to the hook or the handler
Run(globalOrder, envOrders) ==
    /\ pc = "ready"
    /\ RunEnds(BroccliRun([commands |-> commands, env |-> env,
                           parsedFlags |-> parsedFlags, parsedArgs |-> parsedArgs,
                           log |-> << >>, status |-> "running", exit |-> 0,
                           cmd |-> EmptyString, fs |-> NoPointers],
                          osArgs, environ, globalOrder, envOrders))
    /\ UNCHANGED <<osArgs, environ>>

\* processOnPostValidation, the hook being present: user code that returns an
\* error (hookFailed) or nil
OnPostValidation(hookFailed) ==
    /\ pc = "post"
    /\ log' = IF hookFailed
              THEN log \o << Event("post", current, EmptyString, "error"),
                             Event("stderr", current, EmptyString, "hook"),
                             Event("cmdHelp", current, EmptyString, ErrNone) >>
              ELSE Append(log, Event("post", current, EmptyString, ErrNone))
    /\ exitCode' = postValidationExit(hookFailed)
    /\ pc' = IF postValidationExit(hookFailed) # 0 THEN "returned" ELSE "handler"
    /\ UNCHANGED <<commands, env, parsedFlags, parsedArgs, osArgs, environ, current, flagset>>

\* Run line 140: the handler of the matched command runs and Run returns its result
Handler(ret) ==
    /\ pc = "handler"
    /\ log' = Append(log, [Event("handler", current, EmptyString, ErrNone) EXCEPT !.code = ret])
    /\ exitCode' = handlerResult(ret)
    /\ pc' = "returned"
    /\ UNCHANGED <<commands, env, parsedFlags, parsedArgs, osArgs, environ, current, flagset>>

Next ==
    \/ Exec /\ UNCHANGED others
    \/ \E globalOrder \in MapOrders(env),
          envOrders \in [DOMAIN commands -> UNION {MapOrders(commands[c].env) : c \in DOMAIN commands}] :
            /\ \A c \in DOMAIN commands : envOrders[c] \in MapOrders(commands[c].env)
            /\ Run(globalOrder, envOrders)
            /\ UNCHANGED others
    \/ \E hookFailed \in BOOLEAN : OnPostValidation(hookFailed) /\ UNCHANGED others
    \/ \E ret \in HandlerReturns : Handler(ret) /\ UNCHANGED others

Spec == Init /\ [][Next]_vars

(* ---------------- cmd.go: the definition of a command ---------------- *)
\* &Command{} as Broccli.Command builds it: no flag, no arg, argsOrder nil
NewCommand ==
    [name |-> sCmd, flags |-> << >>, args |-> << >>, argsOrder |-> << >>, argsIdx |-> 0,
     env |-> << >>, options |-> [onPostValidation |-> FALSE]]

\* a guard that lets one call too many through
tooManyArgsOffByOne(argsIdx) == argsIdx > maxArgs

\* Command.Arg line 256: c.argsIdx > maxArgs-1
tooManyArgs(argsIdx) == argsIdx > maxArgs - 1

\* Command.Arg lines 272-274: make([]string, maxArgs) when argsOrder is nil
allocatedOrder(argsOrder) ==
    IF argsOrder = << >> THEN [i \in 1..maxArgs |-> EmptyString] ELSE argsOrder

\* Command.Arg lines 260-280 on the command c: the param is stored under its name
\* and the name is written at index argsIdx of argsOrder
storeArg(c, name, valuePlaceholder, types, flags) ==
    [c EXCEPT !.args = MapSet(@, name, NewArg(name, valuePlaceholder, types, flags)),
              !.argsOrder = [allocatedOrder(@) EXCEPT ![c.argsIdx + 1] = name],
              !.argsIdx = @ + 1]

\* Command.Arg: log.Fatal on the call after the tenth; an index past the end of
\* argsOrder would be a run-time panic
Arg(def, name, valuePlaceholder, types, flags) ==
    IF tooManyArgs(def.cmd.argsIdx)
    THEN [def EXCEPT !.status = "fatal", !.calls = @ + 1]
    ELSE IF def.cmd.argsIdx + 1 > Len(allocatedOrder(def.cmd.argsOrder))
    THEN [def EXCEPT !.status = "panicked", !.calls = @ + 1]
    ELSE [def EXCEPT !.cmd = storeArg(@, name, valuePlaceholder, types, flags),
                     !.calls = @ + 1]

\* Command.argsHelpLine lines 432-440: the part of the line for the arguments
\* from argIdx on that are required (unbracketed) or optional (bracketed)
RECURSIVE helpPart(_, _, _)
helpPart(cmd, argIdx, required) ==
    IF argIdx > cmd.argsIdx THEN EmptyString
    ELSE (IF HasBit(cmd.args[cmd.argsOrder[argIdx]].flags, IsRequired) # required
          THEN EmptyString
          ELSE IF required
          THEN <<" ">> \o cmd.args[cmd.argsOrder[argIdx]].valuePlaceholder
          ELSE <<" ", "[">> \o cmd.args[cmd.argsOrder[argIdx]].valuePlaceholder \o <<"]">>)
         \o helpPart(cmd, argIdx + 1, required)

\* Command.argsHelpLine: argsRequired + argsOptional
argsHelpLine(cmd) == helpPart(cmd, 1, TRUE) \o helpPart(cmd, 1, FALSE)

\* the names a definition declares, in the order in which it first uses them
ArgNames == << <<"a">>, <<"b">>, <<"c">>, <<"d">>, <<"e">>, <<"f">>, <<"g">>, <<"h">>,
               <<"i">>, <<"j">>, <<"k">> >>

\* the placeholder a definition gives the argument name
Placeholder(name) == <<"P">> \o name

\* the names the next Arg call of the definition may use: the next new name, or
\* again the name it declared first
NextArgNames(c) ==
    {ArgNames[i] : i \in {Cardinality(DOMAIN c.args) + 1} \cap DOMAIN ArgNames}
    \cup (IF c.argsIdx >= 1 /\ c.argsIdx - Cardinality(DOMAIN c.args) < MaxRedeclared
          THEN {c.argsOrder[1]} ELSE {})

\* a command has been created and none of its arguments declared yet
InitDef ==
    /\ InitRun
    /\ defining = [status |-> "defining", cmd |-> NewCommand, calls |-> 0,
                   sorted |-> << >>, help |-> EmptyString]
    /\ validating = NoValidation

\* one more Arg call of the definition
DeclareArg ==
    /\ defining.status = "defining"
    /\ \E name \in NextArgNames(defining.cmd), flags \in {0, IsRequired} :
          defining' = Arg(defining, name, Placeholder(name), TypeString, flags)
    /\ UNCHANGED <<commands, env, parsedFlags, parsedArgs, osArgs, environ, pc, current,
                   flagset, exitCode, log, runs, validating>>

\* the command as defined so far is asked for its ordering and its usage line
ShowArgs ==
    /\ defining.status = "defining"
    /\ defining' = [defining EXCEPT !.status = "shown",
                                    !.sorted = sortedArgs(defining.cmd),
                                    !.help = argsHelpLine(defining.cmd)]
    /\ UNCHANGED <<commands, env, parsedFlags, parsedArgs, osArgs, environ, pc, current,
                   flagset, exitCode, log, runs, validating>>

NextDef == DeclareArg \/ ShowArgs

SpecDef == InitDef /\ [][NextDef]_vars

(* ---------------- cmd.go: a name declared more than once ---------------- *)
\* the most Flag, Arg and Env calls of one definition
MaxDeclarations == 3

\* Command.Flag: the param is stored under its name
CommandFlag(c, name, alias, types, flags) ==
    [c EXCEPT !.flags = MapSet(@, name, NewParam(name, alias, types, flags, NoOnTrue))]

\* Command.Env: the param is stored under its name
CommandEnv(c, name, types, flags) ==
    [c EXCEPT !.env = MapSet(@, name, NewParam(name, EmptyString, types, flags, NoOnTrue))]

\* the names, the types and the constraints the calls are made with
RepeatedNames == { <<"x">>, <<"y">> }

RepeatedTypes == {TypeString, TypeInt}

\* one call made by the definition, as the definition remembers it
Call(kind, name, types, flags) == [kind |-> kind, name |-> name, types |-> types, flags |-> flags]

\* a command under definition, with the calls made on it so far
InitRepeat ==
    /\ InitRun
    /\ defining = [status |-> "defining", cmd |-> NewCommand, calls |-> 0,
                   sorted |-> << >>, help |-> EmptyString, history |-> << >>]
    /\ validating = NoValidation

\* c.Flag(name, "", ...)
DeclareFlagAgain ==
    /\ defining.status = "defining"
    /\ defining.calls < MaxDeclarations
    /\ \E name \in RepeatedNames, types \in RepeatedTypes, flags \in {0, IsRequired} :
          defining' = [defining EXCEPT
                          !.cmd = CommandFlag(@, name, EmptyString, types, flags),
                          !.calls = @ + 1,
                          !.history = Append(@, Call("flag", name, types, flags))]
    /\ UNCHANGED <<commands, env, parsedFlags, parsedArgs, osArgs, environ, pc, current,
                   flagset, exitCode, log, runs, validating>>

\* c.Env(name, ...)
DeclareEnvAgain ==
    /\ defining.status = "defining"
    /\ defining.calls < MaxDeclarations
    /\ \E name \in RepeatedNames, types \in RepeatedTypes, flags \in {0, IsRequired} :
          defining' = [defining EXCEPT
                          !.cmd = CommandEnv(@, name, types, flags),
                          !.calls = @ + 1,
                          !.history = Append(@, Call("env", name, types, flags))]
    /\ UNCHANGED <<commands, env, parsedFlags, parsedArgs, osArgs, environ, pc, current,
                   flagset, exitCode, log, runs, validating>>

\* c.Arg(name, ...)
DeclareArgAgain ==
    /\ defining.status = "defining"
    /\ defining.calls < MaxDeclarations
    /\ \E name \in RepeatedNames, types \in RepeatedTypes, flags \in {0, IsRequired} :
          defining' = [Arg(defining, name, Placeholder(name), types, flags) EXCEPT
                          !.history = Append(@, Call("arg", name, types, flags))]
    /\ UNCHANGED <<commands, env, parsedFlags, parsedArgs, osArgs, environ, pc, current,
                   flagset, exitCode, log, runs, validating>>

NextRepeat == DeclareFlagAgain \/ DeclareEnvAgain \/ DeclareArgAgain \/ ShowArgs

SpecRepeat == InitRepeat /\ [][NextRepeat]_vars

(* ---------------- validating one value against one param ---------------- *)
\* the most units a joined value is built from
MaxUnits == 2

\* a value type no constant names
TypeUnknown == 6

\* every combination of the twelve validation flags
AllFlags == {2 * k : k \in 0..4095}

\* the sum of a set of flag bits
RECURSIVE BitSum(_)
BitSum(bits) ==
    IF bits = {} THEN 0
    ELSE LET b == CHOOSE x \in bits : TRUE IN b + BitSum(bits \ {b})

\* every combination of the flags the patterns depend on
PatternFlags ==
    {BitSum(bits) : bits \in SUBSET {AllowDots, AllowUnderscore, AllowHyphen,
                                     AllowMultipleValues, SeparatorColon, SeparatorSemiColon}}

\* n times the character ch
Rep(ch, n) == [i \in 1..n |-> ch]

\* the pieces joined values are built from
Pieces == {EmptyString, <<"4", "8">>, <<"a">>, <<"4", ".", "5">>, <<"_">>}

Separators == {<<",">>, <<":">>, <<";">>}

\* the values of n pieces with a separator between neighbours
RECURSIVE Joined(_)
Joined(n) ==
    IF n = 1 THEN Pieces
    ELSE {v \o sep \o piece : v \in Joined(n - 1), sep \in Separators, piece \in Pieces}

\* values at the limits of the patterns
EdgeValues ==
    { <<"a", "a">>, <<"4", "8", ".", "9", "9", "8">>, <<"-", "4">>, <<"+", "4">>,
      <<"a", "-", "b">>, <<"a", ".", "b">>, <<"a", " ", "b">>, <<"Z", "9">>,
      <<".", "5">>, <<"5", ".">>, <<"4", ".", "5", ".", "6">>, <<"-">>, <<".">>,
      Rep("1", 16) \o <<".">> \o Rep("2", 16),
      Rep("1", 17) \o <<".">> \o <<"2">>,
      <<"1">> \o <<".">> \o Rep("2", 17),
      Rep("1", 17) }

PatternValues == UNION {Joined(n) : n \in 1..MaxUnits} \cup EdgeValues

\* the paths of the file system and one that is not there
Paths == DOMAIN FileSystem \cup { <<"x">> }

\* the param of one type and one flag combination, with a value to validate
Chosen(valueType, flags, paramValue) ==
    [status |-> "chosen",
     p |-> NewParam(EmptyString, EmptyString, valueType, flags, NoOnTrue),
     paramValue |-> paramValue,
     err |-> ErrNone]

\* every flag combination with the empty and a one-letter value, for every type
ChooseAny ==
    \E t \in 0..TypeUnknown, f \in AllFlags, v \in {EmptyString, <<"a">>} :
        validating = Chosen(t, f, v)

\* the pattern flags with the pattern values, for the three pattern types
ChoosePattern ==
    \E t \in {TypeInt, TypeFloat, TypeAlphanumeric}, f \in PatternFlags, v \in PatternValues :
        validating = Chosen(t, f, v)

\* every flag combination with every path, for a path param
ChoosePath ==
    \E f \in AllFlags, v \in Paths : validating = Chosen(TypePathFile, f, v)

\* a param was built, with no registry around it, and a value is about to be
\* validated against it
InitValidate ==
    /\ commands = << >>
    /\ env = << >>
    /\ parsedFlags = << >>
    /\ parsedArgs = << >>
    /\ osArgs = <<sProg>>
    /\ environ = << >>
    /\ pc = "idle"
    /\ current = EmptyString
    /\ flagset = NoPointers
    /\ exitCode = 0
    /\ log = << >>
    /\ runs = 0
    /\ defining = NoDefinition
    /\ (ChooseAny \/ ChoosePattern \/ ChoosePath)

\* err := p.validateValue(paramValue)
Validate ==
    /\ validating.status = "chosen"
    /\ validating' = [validating EXCEPT
                        !.status = "validated",
                        !.err = validateValue(validating.p, validating.paramValue)]
    /\ UNCHANGED <<commands, env, parsedFlags, parsedArgs, osArgs, environ, pc, current,
                   flagset, exitCode, log, runs, defining>>

NextValidate == Validate

SpecValidate == InitValidate /\ [][NextValidate]_vars

(* ---------------- Run called more than once on one registry ---------------- *)
\* the most calls of Run on the registry
MaxRuns == 2

\* the values os.Args is given before a call of Run
RerunInvocations ==
    { <<sProg, sCmd, Assign(Short(<<"t">>), <<"x">>), Assign(Long(sName), <<"v">>)>>,
      <<sProg, sCmd, Assign(Short(<<"t">>), <<"x">>), <<"7">>>>,
      <<sProg, sCmd, Assign(Short(<<"t">>), <<"x">>), Short(<<"b">>)>>,
      <<sProg, sCmd, Assign(Short(<<"t">>), <<"x">>), Short(<<"r">>)>>,
      <<sProg, sCmd, Assign(Short(<<"t">>), <<"x">>), <<"p">>>>,
      <<sProg, sCmd>>,
      <<sProg, sCmd, sDashH>>,
      <<sProg, sDashH>>,
      <<sProg, <<"c", "m">>>>,
      <<sProg, sRun>>,
      <<sProg, sRun, <<"p">>>>,
      <<sProg, sRun, Assign(Short(<<"o">>), <<"v">>)>>,
      <<sProg, sRun, Long(sZz), <<"p">>, <<"p">>>> }

\* both env vars are set
EnvironmentSet == [n \in {sG, sE} |-> <<"v">>]

\* the environments of a Run: both env vars set, or one of them unset
RerunEnvironments ==
    { EnvironmentSet, [EnvironmentSet EXCEPT ![sG] = EmptyString],
      [EnvironmentSet EXCEPT ![sE] = EmptyString] }

\* os.Args = ...: the arguments of the next Run are set, before the first Run
\* or after one has returned; the registry and its parsed maps stay as they are
SetArgs ==
    /\ pc \in {"idle", "returned"}
    /\ runs < MaxRuns
    /\ \E argv \in RerunInvocations : osArgs' = argv
    /\ \E environment \in RerunEnvironments : environ' = environment
    /\ runs' = runs + 1
    /\ pc' = "ready"
    /\ current' = EmptyString
    /\ flagset' = NoPointers
    /\ exitCode' = 0
    /\ log' = << >>
    /\ UNCHANGED <<commands, env, parsedFlags, parsedArgs, defining, validating>>

NextRerun ==
    \/ SetArgs
    \/ \E globalOrder \in MapOrders(env),
          envOrders \in [DOMAIN commands -> UNION {MapOrders(commands[c].env) : c \in DOMAIN commands}] :
            /\ \A c \in DOMAIN commands : envOrders[c] \in MapOrders(commands[c].env)
            /\ Run(globalOrder, envOrders)
            /\ UNCHANGED others
    \/ \E hookFailed \in BOOLEAN : OnPostValidation(hookFailed) /\ UNCHANGED others
    \/ \E ret \in HandlerReturns : Handler(ret) /\ UNCHANGED others

SpecRerun == Init /\ [][NextRerun]_vars

(* ---------------- a registry with two global env vars ---------------- *)
sF == <<"F">>

\* Broccli.Env called twice: the global env vars F and G
GlobalEnvTwo ==
    [n \in {sF, sG} |-> [name |-> n, alias |-> EmptyString, valueType |-> TypeString,
                         flags |-> IsRequired, options |-> [onTrue |-> NoOnTrue]]]

\* the values os.Args takes for the registry with two global env vars
OrderInvocations ==
    { <<sProg, sCmd>>,
      <<sProg, sCmd, Assign(Short(<<"t">>), <<"x">>)>>,
      <<sProg, sCmd, Assign(Short(<<"t">>), <<"x">>), Short(<<"r">>)>>,
      <<sProg, sCmd, Assign(Short(<<"a">>), <<"_">>), Short(<<"r">>)>>,
      <<sProg, sRun, Short(<<"m">>), Long(sZz)>>,
      <<sProg, sRun, Long(sZz), <<"p">>>> }

\* the values the three env vars can have in the OS environment
OrderEnvironments == [ {sF, sG, sE} -> { EmptyString, <<"v">> } ]

\* the registry is defined with the two global env vars, Run has not been called
InitOrder ==
    /\ commands = Registry
    /\ env = GlobalEnvTwo
    /\ parsedFlags = << >>
    /\ parsedArgs = << >>
    /\ osArgs = <<sProg>>
    /\ environ = [n \in {sF, sG, sE} |-> EmptyString]
    /\ pc = "idle"
    /\ current = EmptyString
    /\ flagset = NoPointers
    /\ exitCode = 0
    /\ log = << >>
    /\ runs = 0
    /\ defining = NoDefinition
    /\ validating = NoValidation

\* the process is started with its arguments and its environment
ExecOrder ==
    /\ pc = "idle"
    /\ \E argv \in OrderInvocations, environment \in OrderEnvironments :
          /\ osArgs' = argv
          /\ environ' = environment
    /\ pc' = "ready"
    /\ UNCHANGED <<commands, env, parsedFlags, parsedArgs, current, flagset, exitCode, log>>

NextOrder ==
    \/ ExecOrder /\ UNCHANGED others
    \/ \E globalOrder \in MapOrders(env),
          envOrders \in [DOMAIN commands -> UNION {MapOrders(commands[c].env) : c \in DOMAIN commands}] :
            /\ \A c \in DOMAIN commands : envOrders[c] \in MapOrders(commands[c].env)
            /\ Run(globalOrder, envOrders)
            /\ UNCHANGED others
    \/ \E hookFailed \in BOOLEAN : OnPostValidation(hookFailed) /\ UNCHANGED others
    \/ \E ret \in HandlerReturns : Handler(ret) /\ UNCHANGED others

SpecOrder == InitOrder /\ [][NextOrder]_vars

(* ---------------- reading the log and the resolved flag set ---------------- *)
LogIdx == 1..Len(log)

\* the positions of the events of one kind
At(ev) == {i \in LogIdx : log[i].ev = ev}

\* the positions where parameter name of the kind ev was validated, with any result
AtParam(ev, name) == {i \in LogIdx : log[i].ev = ev /\ log[i].name = name}

\* parameter name passed its validation before position k
PassedBefore(ev, name, k) ==
    \E i \in AtParam(ev, name) : i < k /\ log[i].err = ErrNone

\* the two spellings of a help request
HelpToken(token) == token \in {sDashH, sDashDashHelp}

\* the first token names a registered command and no help was requested
Matched ==
    /\ Len(osArgs) >= 2
    /\ ~HelpToken(osArgs[2])
    /\ osArgs[2] \in DOMAIN Registry
    /\ ~(Len(osArgs) > 2 /\ HelpToken(osArgs[3]))

CurFlags == commands[current].flags

NonBoolFlags == {f \in DOMAIN CurFlags : CurFlags[f].valueType # TypeBool}

BoolFlags == {f \in DOMAIN CurFlags : CurFlags[f].valueType = TypeBool}

\* what the flag set resolved for the long form and for the alias form of flag f
LongValue(f) == flagset.nflags[f]

AliasValue(f) ==
    IF CurFlags[f].alias \in DOMAIN flagset.aflags
    THEN flagset.aflags[CurFlags[f].alias]
    ELSE IF CurFlags[f].valueType = TypeBool THEN FALSE ELSE EmptyString

(* ---------------- C1 ---------------- *)
\* C1: the handler is invoked at most once in a Run, it is the handler of the
\* command named by os.Args[1], the Run is no help request, and before the
\* invocation every global and command env var, every non-boolean flag (with no
\* conflict of forms) and every declared argument passed validation and the
\* post-validation hook, if present, returned no error; nothing follows the
\* handler in the Run.
C1_HandlerOnlyAfterAllChecks ==
    /\ Cardinality(At("handler")) <= 1
    /\ \A k \in At("handler") :
        /\ k = Len(log)
        /\ Matched
        /\ log[k].name = osArgs[2]
        /\ current = osArgs[2]
        /\ \A n \in DOMAIN env : PassedBefore("env", n, k)
        /\ \A n \in DOMAIN commands[current].env : PassedBefore("env", n, k)
        /\ \A f \in NonBoolFlags : PassedBefore("flag", f, k)
        /\ At("conflict") = {}
        /\ \A a \in DOMAIN commands[current].args : PassedBefore("arg", a, k)
        /\ hasOnPostValidation(commands[current]) => PassedBefore("post", current, k)
        /\ \A i \in LogIdx : log[i].ev \in {"env", "flag", "arg", "post"} => log[i].err = ErrNone
        /\ At("printHelp") \cup At("cmdHelp") \cup At("invalidCommand") = {}

\* the handler of cmd ran after its env vars, flags, argument and hook passed
C1_Witness ==
    /\ pc = "returned"
    /\ current = sCmd
    /\ At("handler") # {}
    /\ At("post") # {}
    /\ PassedBefore("arg", sNum, Len(log))
    /\ parsedArgs[sNum] = <<"7">>

(* ---------------- C2 ---------------- *)
\* C2: when Run dispatched the handler, what Run returns is the integer the
\* handler returned.
C2_ExitIsHandlerResult ==
    \A k \in At("handler") : pc = "returned" /\ exitCode = log[k].code

\* the handler returned 3 and so did Run
C2_Witness == pc = "returned" /\ \E k \in At("handler") : log[k].code = 3 /\ exitCode = 3

(* ---------------- C3 ---------------- *)
\* the Run has been executed up to its first user callback or its end
Ran == pc \notin {"idle", "ready"}

\* the boolean flag b resolved true in its long or in its alias form
ResolvedTrue(b) == LongValue(b) \/ AliasValue(b)

\* neither form of the non-boolean flag f carries a value
Unsupplied(f) == LongValue(f) = EmptyString /\ AliasValue(f) = EmptyString

\* the flags the hook of the boolean flag b makes Required
MadeRequiredBy(b) ==
    LET adds == CurFlags[b].options.onTrue.adds
    IN  {adds[i].name : i \in {j \in DOMAIN adds : adds[j].kind = "flags" /\ adds[j].bit = IsRequired}}

\* C3: every onTrue hook of a boolean flag that resolved true has completed
\* before the first non-boolean flag is validated; and a Run in which a hook
\* added Required to a flag that was not supplied returns 1 without invoking
\* the handler.
C3_HookBeforeValidate ==
    /\ \A i \in At("flag") :
        /\ \A j \in At("onTrue") : j < i
        /\ \A b \in BoolFlags :
              (CurFlags[b].options.onTrue.set /\ ResolvedTrue(b))
                  => \E j \in AtParam("onTrue", b) : j < i
    /\ \A j \in At("onTrue") :
          (\E f \in MadeRequiredBy(log[j].name) : Unsupplied(f))
              => /\ pc = "returned"
                 /\ exitCode = 1
                 /\ At("handler") = {}

(* ---------------- C4 ---------------- *)
\* os.Args[1] is present, is no help request and is not a registered name
UnknownCommand ==
    /\ Len(osArgs) >= 2
    /\ ~HelpToken(osArgs[2])
    /\ osArgs[2] \notin DOMAIN Registry

\* C4: when os.Args[1] is not exactly a registered command name (and no help
\* request), Run returns 1 and has checked no env var, parsed no flag, run no
\* hook and invoked no handler: all it did was report the invalid command.
C4_UnknownCommandReturnsOne ==
    (Ran /\ UnknownCommand) =>
        /\ pc = "returned"
        /\ exitCode = 1
        /\ \A i \in LogIdx : log[i].ev \in {"invalidCommand", "printHelp"}
        /\ At("invalidCommand") # {}
        /\ flagset = NoPointers
        /\ commands = Registry /\ env = GlobalEnv

\* the strict prefix "cm" of the command cmd was given and Run returned 1
C4_Witness ==
    /\ pc = "returned"
    /\ Len(osArgs) >= 3
    /\ osArgs[2] = <<"c", "m">>
    /\ exitCode = 1

(* ---------------- C5 ---------------- *)
HelpRequested == Len(osArgs) < 2 \/ HelpToken(osArgs[2])

CommandHelpRequested ==
    /\ Len(osArgs) > 2
    /\ osArgs[2] \in DOMAIN Registry
    /\ HelpToken(osArgs[3])

\* C5: on a help request (no command token, -h/--help as os.Args[1], or a
\* registered command followed by -h/--help) Run returns 0 and all it did was
\* print the help: no env var validated, no flag parsed, no hook, no handler.
C5_HelpReturnsZero ==
    (Ran /\ (HelpRequested \/ CommandHelpRequested)) =>
        /\ pc = "returned"
        /\ exitCode = 0
        /\ Len(log) = 1
        /\ log[1].ev = (IF HelpRequested THEN "printHelp" ELSE "cmdHelp")
        /\ flagset = NoPointers
        /\ commands = Registry /\ env = GlobalEnv

\* cmd --help returned 0 although the env vars G and E are not set
C5_Witness ==
    /\ pc = "returned"
    /\ CommandHelpRequested
    /\ osArgs[2] = sCmd
    /\ environ[sG] = EmptyString /\ environ[sE] = EmptyString
    /\ exitCode = 0

(* ---------------- C6 ---------------- *)
\* both forms of the non-boolean flag f carry a value
BothForms(f) == LongValue(f) # EmptyString /\ AliasValue(f) # EmptyString

\* C6: when both forms of a non-boolean flag were supplied with a value, Run
\* returns 1 and the handler is not invoked, the flag is neither validated nor
\* recorded, no argument is processed, and, unless a flag ordered before it
\* failed its own validation first, the last thing Run did is report the
\* conflict, for that flag or for one ordered before it.
C6_ConflictingFormsReturnOne ==
    (Ran /\ flagset.parsed) =>
        \A f \in NonBoolFlags :
            BothForms(f) =>
                /\ pc = "returned"
                /\ exitCode = 1
                /\ At("handler") = {} /\ At("post") = {}
                /\ AtParam("flag", f) = {}
                /\ AtParam("setFlag", f) = {}
                /\ f \notin DOMAIN parsedFlags
                /\ At("arg") = {}
                /\ (\A i \in At("flag") : log[i].err = ErrNone)
                      => /\ log[Len(log)].ev = "conflict"
                         /\ BothForms(log[Len(log)].name)

(* ---------------- C7 ---------------- *)
\* the value Run has to use for the non-boolean flag f: the long form if it
\* carries a value, else the alias form, else the empty string
Resolved(f) == IF LongValue(f) # EmptyString THEN LongValue(f) ELSE AliasValue(f)

\* Broccli.Flag(name): the map entry, the empty string when there is none
Flag(name) == IF name \in DOMAIN parsedFlags THEN parsedFlags[name] ELSE EmptyString

\* Broccli.Arg(name): the map entry, the empty string when there is none
BroccliArg(name) == IF name \in DOMAIN parsedArgs THEN parsedArgs[name] ELSE EmptyString

\* C7: for a non-boolean flag with at most one form carrying a value, the value
\* validated and recorded under the long name is the long-form value if
\* non-empty, else the alias value (for a flag without alias: the long form),
\* and Flag(name) in the handler returns it.
C7_LongElseAlias ==
    (Ran /\ flagset.parsed) =>
        \A f \in NonBoolFlags :
            ~BothForms(f) =>
                /\ \A i \in AtParam("flag", f) \cup AtParam("setFlag", f) :
                      log[i].value = Resolved(f)
                /\ CurFlags[f].alias = EmptyString =>
                      \A i \in AtParam("flag", f) : log[i].value = LongValue(f)
                /\ pc = "handler" => Flag(f) = Resolved(f)
                /\ At("handler") # {} => Flag(f) = Resolved(f)

\* the handler of cmd sees anum given through its alias, name through its long
\* form and text through its long form
C7_Witness ==
    /\ pc = "handler"
    /\ current = sCmd
    /\ LongValue(sAnum) = EmptyString /\ Flag(sAnum) = <<"z">>
    /\ Flag(sName) = <<"v">>
    /\ Flag(sText) = <<"y">>

(* ---------------- C8 ---------------- *)
\* C8: when the handler is dispatched every boolean flag of the command is
\* recorded as "true" if its long or its alias form resolved true and as "false"
\* otherwise; no boolean flag is ever validated, reported in an error line or
\* the subject of a conflict, even when declared Required.
C8_BooleansRecorded ==
    /\ (pc = "handler" \/ At("handler") # {}) =>
          \A b \in BoolFlags :
              Flag(b) = (IF ResolvedTrue(b) THEN sTrue ELSE sFalse)
    /\ (Ran /\ flagset.parsed) =>
          \A i \in LogIdx :
              log[i].ev \in {"flag", "conflict", "stderr"} => log[i].name \notin BoolFlags

\* the handler of cmd sees bool (declared Required, given as -b) as "true", the
\* alias-less nb (given as --nb) as "true" and req (not given) as "false"
C8_Witness ==
    /\ pc = "handler"
    /\ current = sCmd
    /\ HasBit(CurFlags[sBool].flags, IsRequired)
    /\ Flag(sBool) = sTrue /\ ~LongValue(sBool)
    /\ Flag(sNb) = sTrue
    /\ Flag(sReq) = sFalse

(* ---------------- C9 ---------------- *)
\* the env vars Run has to check for the matched command
EnvNames == DOMAIN GlobalEnv \cup DOMAIN Registry[osArgs[2]].env

\* C9: in a Run that matched a command (no help request) every global env var
\* and every env var of the command is validated as Required, whatever it was
\* declared with: when one of them is unset or empty, Run returns 1 and has
\* parsed no flag, run no hook and invoked no handler; and each validation that
\* took place was under Required.
C9_EnvVarsRequired ==
    (Ran /\ Matched) =>
        /\ (\E n \in EnvNames : environ[n] = EmptyString) =>
              /\ pc = "returned"
              /\ exitCode = 1
              /\ flagset = NoPointers
              /\ \A i \in LogIdx : log[i].ev \in {"env", "stderr", "printHelp", "cmdHelp"}
              /\ \E i \in At("env") : log[i].err = ErrParamValueMissing
        /\ \A i \in At("env") :
              /\ log[i].name \in EnvNames
              /\ log[i].value = EmptyString => log[i].err = ErrParamValueMissing
              /\ HasBit((IF log[i].name \in DOMAIN env THEN env
                         ELSE commands[current].env)[log[i].name].flags, IsRequired)
        /\ (\A n \in EnvNames : environ[n] # EmptyString) =>
              \A n \in EnvNames : \E i \in AtParam("env", n) : log[i].err = ErrNone

\* cmd was run with G set and E, declared without Required, unset: Run returned 1
C9_Witness ==
    /\ pc = "returned"
    /\ Matched
    /\ osArgs[2] = sCmd
    /\ ~HasBit(Registry[sCmd].env[sE].flags, IsRequired)
    /\ environ[sG] # EmptyString /\ environ[sE] = EmptyString
    /\ exitCode = 1
    /\ \E i \in AtParam("env", sE) : log[i].err = ErrParamValueMissing

(* ---------------- C10 ---------------- *)
\* every validation Run has to make for the matched command passed
AllValidated ==
    /\ \A n \in EnvNames : \E i \in AtParam("env", n) : log[i].err = ErrNone
    /\ \A f \in NonBoolFlags : \E i \in AtParam("flag", f) : log[i].err = ErrNone
    /\ \A a \in DOMAIN commands[current].args : \E i \in AtParam("arg", a) : log[i].err = ErrNone
    /\ \A i \in LogIdx : log[i].ev \in {"env", "flag", "arg"} => log[i].err = ErrNone
    /\ At("conflict") = {}

\* C10: the onPostValidation hook of the matched command is invoked at most
\* once, only after every validation of the Run passed and after the last of
\* them, and before the handler; a Run of a command with the hook whose
\* validations all passed invokes it before it goes on; when the hook returns
\* an error Run returns 1 and the handler is not invoked.
C10_PostValidationOnce ==
    /\ Cardinality(At("post")) <= 1
    /\ \A k \in At("post") :
          /\ Matched /\ log[k].name = current
          /\ hasOnPostValidation(commands[current])
          /\ AllValidated
          /\ \A i \in At("env") \cup At("flag") \cup At("arg") \cup At("onTrue") : i < k
          /\ \A h \in At("handler") : k < h
          /\ log[k].err # ErrNone =>
                /\ pc = "returned"
                /\ exitCode = 1
                /\ At("handler") = {}
    /\ (Ran /\ Matched /\ pc \in {"handler", "returned"} /\ flagset.parsed
            /\ hasOnPostValidation(commands[current]) /\ AllValidated)
          => Cardinality(At("post")) = 1
    /\ pc = "post" =>
          /\ hasOnPostValidation(commands[current])
          /\ AllValidated
          /\ At("post") = {} /\ At("handler") = {}

\* the hook of cmd returned an error after every validation passed: Run
\* returned 1 without the handler
C10_Witness ==
    /\ pc = "returned"
    /\ current = sCmd
    /\ AllValidated
    /\ \E k \in At("post") : log[k].err # ErrNone
    /\ exitCode = 1
    /\ At("handler") = {}

(* ---------------- C11 ---------------- *)
\* the names of the Arg calls of the command under definition, in call order
Declared == SubSeq(defining.cmd.argsOrder, 1, defining.cmd.argsIdx)

\* the argument name of the command under definition carries Required
DeclaredRequired(name) == HasBit(defining.cmd.args[name].flags, IsRequired)

DeclaredOptional(name) == ~DeclaredRequired(name)

\* the usage-line entry of the argument name
UsageEntry(name) ==
    IF DeclaredRequired(name)
    THEN <<" ">> \o defining.cmd.args[name].valuePlaceholder
    ELSE <<" ", "[">> \o defining.cmd.args[name].valuePlaceholder \o <<"]">>

RECURSIVE UsageOf(_)
UsageOf(names) ==
    IF names = << >> THEN EmptyString ELSE UsageEntry(Head(names)) \o UsageOf(Tail(names))

\* how often name occurs in the sequence names
Occurrences(names, name) == Cardinality({i \in DOMAIN names : names[i] = name})

\* C11: sortedArgs returns the declared names, as many as there were Arg calls,
\* the Required ones in declaration order followed by the others in declaration
\* order; the usage line lists the placeholders in that order, the Required ones
\* unbracketed and the others in brackets.
C11_SortedArgsStablePartition ==
    defining.status = "shown" =>
        /\ Len(defining.sorted) = defining.calls
        /\ \A name \in DOMAIN defining.cmd.args :
              Occurrences(defining.sorted, name) = Occurrences(Declared, name)
        /\ defining.sorted =
              SelectSeq(Declared, DeclaredRequired) \o SelectSeq(Declared, DeclaredOptional)
        /\ defining.help = UsageOf(defining.sorted)

\* declared as [a optional, b Required, c optional, d Required], ordered as
\* [b, d, a, c] and shown as " Pb Pd [Pa] [Pc]"
C11_Witness ==
    /\ defining.status = "shown"
    /\ Declared = << <<"a">>, <<"b">>, <<"c">>, <<"d">> >>
    /\ defining.sorted = << <<"b">>, <<"d">>, <<"a">>, <<"c">> >>
    /\ defining.help = <<" ", "P", "b", " ", "P", "d", " ", "[", "P", "a", "]",
                         " ", "[", "P", "c", "]">>

(* ---------------- C13 ---------------- *)
\* C13: the first 10 Arg calls on a command succeed and the 11th ends the process
\* at definition time, before any Run; so a command never has more than 10
\* declared arguments, and the order sequence, of capacity 10, is written and
\* read inside its bounds only.
C13_AtMostTenArgs ==
    defining.status # "none" =>
        /\ defining.status # "panicked"
        /\ defining.calls <= maxArgs => (defining.status # "fatal" /\ defining.cmd.argsIdx = defining.calls)
        /\ defining.calls > maxArgs => (defining.status = "fatal" /\ defining.calls = maxArgs + 1)
        /\ defining.cmd.argsIdx <= maxArgs
        /\ Cardinality(DOMAIN defining.cmd.args) <= maxArgs
        /\ defining.cmd.argsIdx > 0 => Len(defining.cmd.argsOrder) = maxArgs
        /\ \A i \in 1..defining.cmd.argsIdx :
              i \in DOMAIN defining.cmd.argsOrder /\ defining.cmd.argsOrder[i] \in DOMAIN defining.cmd.args
        /\ Len(defining.sorted) <= maxArgs
        /\ pc = "idle" /\ runs = 0

\* the 11th Arg call ended the process, the command holding 10 arguments
C13_Witness ==
    /\ defining.status = "fatal"
    /\ defining.calls = maxArgs + 1
    /\ Cardinality(DOMAIN defining.cmd.args) = maxArgs

(* ---------------- C12 ---------------- *)
CurArgs == commands[current].args

\* the argument a of the matched command carries Required
ArgRequired(a) == HasBit(CurArgs[a].flags, IsRequired)

ArgOptional(a) == ~ArgRequired(a)

\* the declared arguments of the matched command, in declaration order
CurDeclared == SubSeq(commands[current].argsOrder, 1, commands[current].argsIdx)

\* the required-first ordering of the arguments of the matched command
RequiredFirst == SelectSeq(CurDeclared, ArgRequired) \o SelectSeq(CurDeclared, ArgOptional)

\* the tokens left over by the flag set
Leftover == flagset.args

\* the token bound to position i of the ordering
TokenAt(i) == IF i <= Len(Leftover) THEN Leftover[i] ELSE EmptyString

\* the positions of the log at which an argument was validated, in order
ArgSteps == SelectSeq([i \in LogIdx |-> i], LAMBDA i : log[i].ev = "arg")

\* C12: the i-th argument validated in a Run is the i-th name of the
\* required-first ordering, with the i-th leftover token as its value, or the
\* empty string when there is no such token, and it is validated against that
\* argument's parameter; a Required argument without a token makes Run return
\* 1; when the handler is dispatched, Arg(name) is the bound token for every
\* argument.
C12_ArgsBoundByIndex ==
    (Ran /\ flagset.parsed) =>
        /\ Len(ArgSteps) <= Len(RequiredFirst)
        /\ \A i \in DOMAIN ArgSteps :
              /\ log[ArgSteps[i]].name = RequiredFirst[i]
              /\ log[ArgSteps[i]].value = TokenAt(i)
              /\ log[ArgSteps[i]].err = validateValue(CurArgs[RequiredFirst[i]], TokenAt(i))
        /\ (\E i \in DOMAIN RequiredFirst :
                ArgRequired(RequiredFirst[i]) /\ TokenAt(i) = EmptyString)
              => (pc = "returned" /\ exitCode = 1 /\ At("handler") = {})
        /\ (pc = "handler" \/ At("handler") # {}) =>
              /\ Len(ArgSteps) = Len(RequiredFirst)
              /\ \A i \in DOMAIN RequiredFirst : BroccliArg(RequiredFirst[i]) = TokenAt(i)

\* run --zz p: the hook made the argument in, declared second, Required, so the
\* one token went to in and the handler sees out empty
C12_Witness ==
    /\ pc = "handler"
    /\ current = sRun
    /\ CurDeclared = <<sOut, sIn>>
    /\ RequiredFirst = <<sIn, sOut>>
    /\ Leftover = << <<"p">> >>
    /\ BroccliArg(sIn) = <<"p">>
    /\ BroccliArg(sOut) = EmptyString

(* ---------------- reading a validation ---------------- *)
\* the value was validated
Validated == validating.status = "validated"

\* the validated param carries the flag bit
Set(bit) == HasBit(validating.p.flags, bit)

ValueType == validating.p.valueType

Value == validating.paramValue

Succeeded == validating.err = ErrNone

PatternTypes == {TypeInt, TypeFloat, TypeAlphanumeric}

(* ---------------- C14 ---------------- *)
\* C14: validating the empty string against a param of any type but Bool, with
\* any combination of the other flags, gives the missing-value error when
\* Required is set and success when it is not, unknown types included.
C14_EmptyValue ==
    (Validated /\ ValueType # TypeBool /\ Value = EmptyString) =>
        /\ Set(IsRequired) => validating.err = ErrParamValueMissing
        /\ ~Set(IsRequired) => Succeeded

\* an optional value of an unknown type, with every other flag set, was empty
\* and was accepted
C14_Witness ==
    /\ Validated
    /\ ValueType = TypeUnknown
    /\ validating.p.flags = 8190 - IsRequired
    /\ Value = EmptyString
    /\ Succeeded

IntUnit(s) == s # EmptyString /\ \A i \in DOMAIN s : s[i] \in Digits

\* 1 to 16 digits, a dot, 1 to 16 digits
FloatUnit(s) ==
    \E k \in DOMAIN s :
        /\ s[k] = "."
        /\ k - 1 \in 1..16
        /\ Len(s) - k \in 1..16
        /\ \A i \in DOMAIN s \ {k} : s[i] \in Digits

\* the characters the validated Alphanumeric param allows
AllowedChars ==
    Digits \cup Letters \cup
    {ch \in {".", "_", "-"} :
        \/ ch = "." /\ Set(AllowDots)
        \/ ch = "_" /\ Set(AllowUnderscore)
        \/ ch = "-" /\ Set(AllowHyphen)}

AlphanumericUnit(s) == s # EmptyString /\ \A i \in DOMAIN s : s[i] \in AllowedChars

\* s is one unit of the validated param's type
Unit(s) ==
    \/ ValueType = TypeInt /\ IntUnit(s)
    \/ ValueType = TypeFloat /\ FloatUnit(s)
    \/ ValueType = TypeAlphanumeric /\ AlphanumericUnit(s)

\* C16: without AllowMultipleValues a non-empty value of an Int, Float or
\* Alphanumeric param is accepted exactly when the whole value is one unit of
\* the type, and every other value fails with the invalid-value error.
C16_SingleUnit ==
    (Validated /\ ValueType \in PatternTypes /\ ~Set(AllowMultipleValues) /\ Value # EmptyString) =>
        /\ Succeeded <=> Unit(Value)
        /\ ~Succeeded => validating.err = ErrParamValueInvalid

\* a float of 16 digits on each side of the dot was accepted
C16_Witness ==
    /\ Validated
    /\ ValueType = TypeFloat
    /\ ~Set(AllowMultipleValues)
    /\ Value = Rep("1", 16) \o <<".">> \o Rep("2", 16)
    /\ Succeeded

(* ---------------- C17 ---------------- *)
\* the separator of the validated param
ActiveSeparator ==
    IF Set(SeparatorColon) THEN ":"
    ELSE IF Set(SeparatorSemiColon) THEN ";"
    ELSE ","

\* the positions of the active separator in the value, and its two ends
Cuts == {0, Len(Value) + 1} \cup {i \in DOMAIN Value : Value[i] = ActiveSeparator}

\* the cut that follows cut a
NextCut(a) == CHOOSE b \in Cuts : b > a /\ \A c \in Cuts : c > a => b <= c

\* the value is one or more units joined by the active separator
JoinedUnits ==
    \A a \in Cuts \ {Len(Value) + 1} : Unit(SubSeq(Value, a + 1, NextCut(a) - 1))

\* flags without the bit
ClearBit(flags, bit) == IF HasBit(flags, bit) THEN flags - bit ELSE flags

\* the validated param without its separator flags
WithoutSeparators ==
    [validating.p EXCEPT
        !.flags = ClearBit(ClearBit(validating.p.flags, SeparatorColon), SeparatorSemiColon)]

\* C17: with AllowMultipleValues a non-empty value of an Int, Float or
\* Alphanumeric param is accepted exactly when it is one or more units joined
\* by the active separator (colon, else semicolon, else comma), and fails with
\* the invalid-value error otherwise; without AllowMultipleValues the
\* separator flags do not change the result.
C17_MultipleValues ==
    /\ (Validated /\ ValueType \in PatternTypes /\ Set(AllowMultipleValues) /\ Value # EmptyString) =>
          /\ Succeeded <=> JoinedUnits
          /\ ~Succeeded => validating.err = ErrParamValueInvalid
    /\ (Validated /\ ~Set(AllowMultipleValues)) =>
          validating.err = validateValue(WithoutSeparators, Value)

\* two integers joined by a colon were accepted by a param that carries both
\* separator flags
C17_Witness ==
    /\ Validated
    /\ ValueType = TypeInt
    /\ Set(AllowMultipleValues) /\ Set(SeparatorColon) /\ Set(SeparatorSemiColon)
    /\ Value = <<"4", "8", ":", "4", "8">>
    /\ Succeeded

(* ---------------- C18 ---------------- *)
\* stat says the path does not exist
NotFound == Value \notin DOMAIN FileSystem

\* stat fails for another reason
StatFails == ~NotFound /\ FileSystem[Value].kind = "staterr"

IsRegular == ~NotFound /\ FileSystem[Value].kind = "regular"

IsDir == ~NotFound /\ FileSystem[Value].kind = "dir"

\* the result of the six rules, the first applicable one deciding
SixRules ==
    IF NotFound THEN (IF Set(IsExistent) THEN ErrFileNotExist ELSE ErrNone)
    ELSE IF Set(IsNotExistent) THEN ErrFileExist
    ELSE IF Set(IsRegularFile) /\ ~IsRegular THEN ErrFileNotRegularFile
    ELSE IF Set(IsDirectory) /\ ~IsDir THEN ErrFileNotDirectory
    ELSE IF Set(IsRegularFile) /\ Set(IsValidJSON) /\ ~FileSystem[Value].readable THEN ErrFileOpen
    ELSE IF Set(IsRegularFile) /\ Set(IsValidJSON) /\ ~FileSystem[Value].json
         THEN ErrFileNotValidJSON
    ELSE ErrNone

\* C18 as stated: the result of validating a non-empty value against a
\* PathFile param is the result of the six rules.
C18_SixRulesOnly ==
    (Validated /\ ValueType = TypePathFile /\ Value # EmptyString) =>
        validating.err = SixRules

\* C18: the result of validating a non-empty value against a PathFile param
\* is the stat-info error when stat fails for a reason other than the path not
\* existing, whatever the flags, and the result of the six rules otherwise.
C18_StatFailureThenSixRules ==
    (Validated /\ ValueType = TypePathFile /\ Value # EmptyString) =>
        validating.err = (IF StatFails THEN ErrFileInfo ELSE SixRules)

\* a path whose stat fails was rejected with the stat-info error by a param
\* that asks for nothing
C18_Witness ==
    /\ Validated
    /\ ValueType = TypePathFile
    /\ validating.p.flags = 0
    /\ StatFails
    /\ validating.err = ErrFileInfo

(* ---------------- C19 ---------------- *)
\* the value the present Run recorded for the parameter name, by events of the
\* kind ev, is value
RecordedNow(ev, name, value) ==
    \E i \in AtParam(ev, name) : log[i].value = value

\* C19: after a Run, and in its handler, Flag(n) and Arg(n) are the empty
\* string or a value the present Run recorded for n, never one left by a Run
\* before it.
C19_NoStaleValues ==
    (runs >= 1 /\ pc \in {"handler", "returned"}) =>
        /\ \A n \in DOMAIN parsedFlags :
              Flag(n) # EmptyString => RecordedNow("setFlag", n, Flag(n))
        /\ \A n \in DOMAIN parsedArgs :
              BroccliArg(n) # EmptyString => RecordedNow("setArg", n, BroccliArg(n))

(* ---------------- C20 ---------------- *)
\* the Run matched a command, returned 1 and never reached the handler: an env
\* var, a flag, an argument or the post-validation hook failed
FailedCheck == pc = "returned" /\ exitCode = 1 /\ Matched /\ At("handler") = {}

Categories == {"Flag", "Argument", "Env var"}

\* the category the error line has to name after the failed step
CategoryAfter(step) ==
    IF step.ev = "env" THEN {"Env var"}
    ELSE IF step.ev \in {"flag", "conflict"} THEN {"Flag"}
    ELSE IF step.ev = "arg" THEN {"Argument"}
    ELSE Categories

\* the name or placeholder the error line has to name after the failed step
NameAfter(step) ==
    IF step.ev = "arg" THEN CurArgs[step.name].valuePlaceholder ELSE step.name

\* C20: a Run that returns 1 because an env var, a flag (conflicting forms
\* included), an argument or the post-validation hook failed ends with exactly
\* one error line, naming the category and the name or placeholder of what
\* failed, followed by the help of the matched command.
C20_ErrorLineThenCommandHelp ==
    FailedCheck =>
        /\ Cardinality(At("stderr")) = 1
        /\ Len(log) >= 3
        /\ log[Len(log) - 2].ev \in {"env", "flag", "conflict", "arg", "post"}
        /\ log[Len(log) - 1].ev = "stderr"
        /\ log[Len(log) - 1].err \in CategoryAfter(log[Len(log) - 2])
        /\ log[Len(log) - 1].name = NameAfter(log[Len(log) - 2])
        /\ log[Len(log)].ev = "cmdHelp"
        /\ log[Len(log)].name = current

(* ---------------- C21 ---------------- *)
\* the stage an event of the log belongs to, 0 for what is printed
StageOf(e) ==
    IF e.ev = "env" THEN (IF e.name \in DOMAIN GlobalEnv THEN 1 ELSE 2)
    ELSE IF e.ev = "parse" THEN 3
    ELSE IF e.ev = "onTrue" THEN 4
    ELSE IF e.ev \in {"flag", "setFlag", "conflict"} THEN 5
    ELSE IF e.ev \in {"arg", "setArg"} THEN 6
    ELSE IF e.ev = "post" THEN 7
    ELSE IF e.ev = "handler" THEN 8
    ELSE 0

\* the step at position i of the log is a stage that failed
FailedAt(i) ==
    \/ log[i].ev \in {"env", "flag", "arg", "post"} /\ log[i].err # ErrNone
    \/ log[i].ev = "conflict"

\* the Run is over, one way or another
Ended == pc \in {"returned", "panicked"}

\* C21: in a Run that matched a command and asked for no help the stages run
\* in the order global env vars, command env vars, flag parse, onTrue hooks,
\* flag validation, argument validation, post-validation hook, handler; a
\* failed stage is the last one and makes Run return 1; a Run that ended did
\* so by returning, after a failed env, flag, argument or post-validation
\* stage or after the handler.
C21_StagesInOrder ==
    (Ran /\ Matched) =>
        /\ \A i, j \in LogIdx :
              (i < j /\ StageOf(log[i]) # 0 /\ StageOf(log[j]) # 0)
                 => StageOf(log[i]) <= StageOf(log[j])
        /\ \A i \in LogIdx :
              FailedAt(i) => /\ \A j \in LogIdx : j > i => StageOf(log[j]) = 0
                             /\ pc = "returned"
                             /\ exitCode = 1
        /\ Ended => /\ pc = "returned"
                    /\ (At("handler") # {} \/ \E i \in LogIdx : FailedAt(i))

(* ---------------- C22 ---------------- *)
\* the boolean flags of the matched command that carry an onTrue hook
HookFlags == {b \in BoolFlags : CurFlags[b].options.onTrue.set}

\* C22: once the flag set is parsed, the hook of every boolean flag that
\* carries one, with or without an alias, is invoked exactly once if the long
\* or the alias form resolved true and not at all if both resolved false, and
\* the Run goes on to the validation of the flags.
C22_HookOncePerTrueFlag ==
    (Ran /\ Matched /\ flagset.parsed) =>
        /\ \A b \in HookFlags :
              Cardinality(AtParam("onTrue", b)) = (IF ResolvedTrue(b) THEN 1 ELSE 0)
        /\ pc # "panicked"
        /\ \E i \in LogIdx : StageOf(log[i]) = 5

(* ---------------- C23 ---------------- *)
\* the events of the kind ev come in the lexicographic order of their names
InNameOrder(ev) ==
    \A i, j \in At(ev) : i < j => StringLess(log[i].name, log[j].name)

\* the env vars declared together with the env var n: the global ones or the
\* ones of the matched command
DeclaredWith(n) == IF n \in DOMAIN env THEN env ELSE commands[current].env

\* the env var of the map vars named m fails its validation in this environment
EnvFails(vars_, m) ==
    validateValue([vars_[m] EXCEPT !.flags = OrBit(@, IsRequired)], Getenv(environ, m)) # ErrNone

\* C23: onTrue hooks fire and flags are validated in the lexicographic order
\* of the flag names, env vars are validated in the lexicographic order of
\* their names, and the flag or env var whose failure is reported is the
\* lexicographically smallest one that fails in the Run.
C23_LexicographicOrder ==
    (Ran /\ Matched) =>
        /\ InNameOrder("onTrue")
        /\ InNameOrder("flag")
        /\ \A i \in At("flag") \cup At("conflict") :
              FailedAt(i) =>
                 \A f \in NonBoolFlags :
                    StringLess(f, log[i].name) => PassedBefore("flag", f, i)
        /\ \A i, j \in At("env") :
              (i < j /\ DOMAIN DeclaredWith(log[i].name) = DOMAIN DeclaredWith(log[j].name))
                 => StringLess(log[i].name, log[j].name)
        /\ \A i \in At("env") :
              FailedAt(i) =>
                 \A m \in DOMAIN DeclaredWith(log[i].name) :
                    StringLess(m, log[i].name) => ~EnvFails(DeclaredWith(log[i].name), m)

(* ---------------- C24 ---------------- *)
\* the flag tokenizer reported an error in this Run
ParseFailed == \E i \in At("parse") : log[i].err # PErrNone

\* no stage of the Run failed
NothingFailed == \A i \in LogIdx : ~FailedAt(i)

\* C24: after an error of the flag tokenizer the Run goes on: the hooks run,
\* the flags are validated, a value given before the error is kept and a flag
\* left without its value is empty; when nothing fails validation the handler
\* is dispatched and its result is what Run returns.
C24_TokenizerErrorDoesNotAbort ==
    (Ran /\ Matched /\ ParseFailed) =>
        /\ pc # "panicked"
        /\ \A i \in At("parse") : \E j \in LogIdx : j > i /\ StageOf(log[j]) = 5
        /\ (current = sRun /\ osArgs[3] = Assign(Short(<<"o">>), <<"v">>))
              => AliasValue(sOpt) = <<"v">>
        /\ (/\ current = sRun
            /\ osArgs[Len(osArgs)] = Long(sOpt)
            /\ Leftover = << >>
            /\ \A k \in 3..(Len(osArgs) - 1) :
                  osArgs[k] \notin {Long(sOpt), Assign(Long(sOpt), <<"u">>)})
              => LongValue(sOpt) = EmptyString
        /\ NothingFailed =>
              /\ pc \in {"post", "handler"} \/ At("handler") # {}
              /\ pc = "returned" => \E k \in At("handler") : log[k].code = exitCode

(* ---------------- C25 ---------------- *)
\* the calls of one kind made for one name, as positions of the history
CallsFor(kind, name) ==
    {i \in DOMAIN defining.history :
        defining.history[i].kind = kind /\ defining.history[i].name = name}

\* the last call of one kind made for one name
LastCall(kind, name) ==
    defining.history[CHOOSE i \in CallsFor(kind, name) : \A j \in CallsFor(kind, name) : j <= i]

\* the param p carries the type and the constraints of the call
Carries(p, call) == p.valueType = call.types /\ p.flags = call.flags

\* the names the calls of one kind were made for
NamesOf(kind) == {defining.history[i].name : i \in {j \in DOMAIN defining.history :
                                                       defining.history[j].kind = kind}}

\* C25: after any calls of Flag, Env and Arg on one command, the command holds
\* for every name exactly one flag, one env var and one argument, the one of
\* the last call made for that name, and every declared name comes exactly
\* once in the order the flags are processed in and exactly once in the
\* ordering of the arguments.
C25_LastWriteWins ==
    (defining.status \in {"defining", "shown"} /\ "history" \in DOMAIN defining) =>
        /\ DOMAIN defining.cmd.flags = NamesOf("flag")
        /\ DOMAIN defining.cmd.env = NamesOf("env")
        /\ DOMAIN defining.cmd.args = NamesOf("arg")
        /\ \A n \in NamesOf("flag") :
              /\ Carries(defining.cmd.flags[n], LastCall("flag", n))
              /\ Occurrences(sortedFlags(defining.cmd), n) = 1
        /\ \A n \in NamesOf("env") : Carries(defining.cmd.env[n], LastCall("env", n))
        /\ \A n \in NamesOf("arg") :
              /\ Carries(defining.cmd.args[n], LastCall("arg", n))
              /\ Occurrences(sortedArgs(defining.cmd), n) = 1

(* ---------------- C26 ---------------- *)
\* the six declared value types
DeclaredTypes == {TypeString, TypeBool, TypeInt, TypeFloat, TypeAlphanumeric, TypePathFile}

\* C26: validating a non-empty value against a param whose type is Bool, or
\* is none of the six declared types, fails with the invalid-type error,
\* whatever the flags.
C26_BoolAndUnknownTypes ==
    (Validated /\ (ValueType = TypeBool \/ ValueType \notin DeclaredTypes) /\ Value # EmptyString) =>
        validating.err = ErrParamTypeInvalid

\* a non-empty value was rejected with the invalid-type error by a Bool param
\* that asks for nothing
C26_Witness ==
    /\ Validated
    /\ ValueType = TypeBool
    /\ validating.p.flags = 0
    /\ Value = <<"a">>
    /\ validating.err = ErrParamTypeInvalid

(* ---------------- C27 ---------------- *)
\* the constraint bits a param can carry
ConstraintBits ==
    {IsRequired, IsExistent, IsNotExistent, IsDirectory, IsRegularFile, IsValidJSON,
     AllowDots, AllowUnderscore, AllowHyphen, AllowMultipleValues, SeparatorColon,
     SeparatorSemiColon}

\* every constraint bit of the flags word before is a bit of the word after
KeepsBits(before, after) ==
    \A bit \in ConstraintBits : HasBit(before, bit) => HasBit(after, bit)

\* the bits of the word after that the word before had not
NewBits(before, after) ==
    {bit \in ConstraintBits : HasBit(after, bit) /\ ~HasBit(before, bit)}

\* the statements of the hooks of command c, each with the flag that carries it
HookAdds(c) ==
    {<<b, commands[c].flags[b].options.onTrue.adds[k]>> :
        b \in {f \in DOMAIN commands[c].flags : commands[c].flags[f].options.onTrue.set},
        k \in {1}}

\* the hook of a flag of command c that resolved true in the Run with the log
\* events added the bit to the param name of the kind
AddedByHook(c, kind, name, bit, cur, events) ==
    /\ cur = c
    /\ \E h \in HookAdds(c) :
          /\ h[2] = [kind |-> kind, name |-> name, bit |-> bit]
          /\ \E i \in DOMAIN events : events[i].ev = "onTrue" /\ events[i].name = h[1]

\* the env var name was validated in the Run with the log events
CheckedEnv(name, events) ==
    \E i \in DOMAIN events : events[i].ev = "env" /\ events[i].name = name

\* a step of the process keeps every constraint bit of every param, and a bit
\* it adds is the bit of a hook that fired in the step or the Required bit of
\* an env var the step validated
ConstraintsStep ==
    /\ \A c \in DOMAIN commands :
          /\ \A n \in DOMAIN commands[c].flags :
                /\ KeepsBits(commands[c].flags[n].flags, commands'[c].flags[n].flags)
                /\ \A bit \in NewBits(commands[c].flags[n].flags, commands'[c].flags[n].flags) :
                      AddedByHook(c, "flags", n, bit, current', log')
          /\ \A n \in DOMAIN commands[c].args :
                /\ KeepsBits(commands[c].args[n].flags, commands'[c].args[n].flags)
                /\ \A bit \in NewBits(commands[c].args[n].flags, commands'[c].args[n].flags) :
                      AddedByHook(c, "args", n, bit, current', log')
          /\ \A n \in DOMAIN commands[c].env :
                /\ KeepsBits(commands[c].env[n].flags, commands'[c].env[n].flags)
                /\ \A bit \in NewBits(commands[c].env[n].flags, commands'[c].env[n].flags) :
                      bit = IsRequired /\ current' = c /\ CheckedEnv(n, log')
    /\ \A n \in DOMAIN env :
          /\ KeepsBits(env[n].flags, env'[n].flags)
          /\ \A bit \in NewBits(env[n].flags, env'[n].flags) :
                bit = IsRequired /\ CheckedEnv(n, log')

\* the param of the matched command a hook statement is about
HookTarget(a) == IF a.kind = "flags" THEN CurFlags[a.name] ELSE commands[current].args[a.name]

\* the Run validated the param of hook statement a, with the result its
\* constraints as they are now call for
ValidatedUnder(a) ==
    \E i \in AtParam(IF a.kind = "flags" THEN "flag" ELSE "arg", a.name) :
        log[i].err = validateValue(HookTarget(a), log[i].value)

\* the Run failed on another parameter than name
FailedElsewhere(name) == \E i \in LogIdx : FailedAt(i) /\ log[i].name # name

\* a Run that parsed its flags, left the boolean flag of a hook out and is past
\* the validation of the flags and the arguments validated the param the hook
\* is about under the constraint the hook added before, unless the Run failed
\* on another parameter
StillValidated ==
    (Matched /\ flagset.parsed /\ pc \in {"returned", "post", "handler", "panicked"}) =>
        \A h \in HookAdds(current) :
            (~ResolvedTrue(h[1]) /\ HasBit(HookTarget(h[2]).flags, h[2].bit))
               => (ValidatedUnder(h[2]) \/ FailedElsewhere(h[2].name))

\* C27: no step of the process clears a constraint bit of a param; a bit is
\* added only by an onTrue hook that fired or, the Required bit of an env var,
\* by the env check; and a later Run on the same registry that does not pass
\* the boolean flag still validates the param of the hook under the added
\* constraint.
C27_ConstraintsPersist == [][ConstraintsStep /\ StillValidated']_vars

\* the persistence alone: bits are kept, and added only by hooks and env checks
C27_BitsKept == [][ConstraintsStep]_vars

\* the second Run on the registry left the flag req out and failed on the flag
\* anum, required since the hook of req fired in the first Run
C27_Persisted ==
    /\ runs = 2
    /\ pc = "returned"
    /\ exitCode = 1
    /\ current = sCmd
    /\ ~ResolvedTrue(sReq)
    /\ HasBit(CurFlags[sAnum].flags, IsRequired)
    /\ \E i \in AtParam("flag", sAnum) : log[i].err = ErrParamValueMissing

\* the second Run on the registry left the flag zz out and panicked, the
\* argument in being required since the hook of zz fired in the first Run
C27_Panicked ==
    /\ runs = 2
    /\ pc = "panicked"
    /\ current = sRun
    /\ HasBit(commands[sRun].args[sIn].flags, IsRequired)
    /\ AtParam("arg", sIn) = {}

(* ---------------- C28 ---------------- *)
\* the entries of the map after that the map before had not, or had with
\* another value
Changed(before, after) ==
    {n \in DOMAIN after : n \notin DOMAIN before \/ before[n] # after[n]}

\* the events are those of a Run that ended in the top-level help, in the help
\* of a command, on an unknown command or on an env var that failed
EndedBeforeFlags(events, code) ==
    \/ \E i \in DOMAIN events : events[i].ev \in {"printHelp", "invalidCommand"}
    \/ code = 0 /\ \E i \in DOMAIN events : events[i].ev = "cmdHelp"
    \/ \E i \in DOMAIN events : events[i].ev = "env" /\ events[i].err # ErrNone

\* the flags the Run with the events failed on: a failed validation or a
\* conflict of the two forms
FailedFlags(events) ==
    {events[i].name : i \in {j \in DOMAIN events :
        \/ events[j].ev = "flag" /\ events[j].err # ErrNone
        \/ events[j].ev = "conflict"}}

\* the arguments the Run with the events failed on
FailedArgs(events) ==
    {events[i].name : i \in {j \in DOMAIN events :
        events[j].ev = "arg" /\ events[j].err # ErrNone}}

\* the name a comes before the name b in the sequence order
Precedes(order, a, b) ==
    \E i, j \in DOMAIN order : i < j /\ order[i] = a /\ order[j] = b

\* what a step leaves of the two maps: no entry is removed; a Run that ended
\* before its flags changes none; a Run that failed on a flag changes no
\* argument and only flags ordered before the failing one; a Run that failed
\* on an argument changes only arguments ordered before the failing one
FrameStep ==
    /\ DOMAIN parsedFlags \subseteq DOMAIN parsedFlags'
    /\ DOMAIN parsedArgs \subseteq DOMAIN parsedArgs'
    /\ (pc = "ready" /\ pc' = "returned") =>
          /\ EndedBeforeFlags(log', exitCode') =>
                /\ Changed(parsedFlags, parsedFlags') = {}
                /\ Changed(parsedArgs, parsedArgs') = {}
          /\ \A f \in FailedFlags(log') :
                /\ Changed(parsedArgs, parsedArgs') = {}
                /\ \A n \in Changed(parsedFlags, parsedFlags') : StringLess(n, f)
          /\ \A a \in FailedArgs(log') :
                \A n \in Changed(parsedArgs, parsedArgs') : Precedes(RequiredFirst', n, a)

\* C28: a Run that ends in the top-level help, the help of a command, an
\* unknown command or a failed env var changes no entry of the parsed flags and
\* of the parsed arguments; a Run that fails in the validation of the flags
\* changes no parsed argument, and parsed flags only for flags ordered before
\* the failing one; a Run that fails in the validation of the arguments changes
\* parsed arguments only for arguments ordered before the failing one; and no
\* Run removes an entry from either map.
C28_FailingRunFrame == [][FrameStep]_vars

\* the second Run on the registry failed on its first flag, anum, and the
\* entries the first Run left for name and for the argument num are as they
\* were
C28_Witness ==
    /\ runs = 2
    /\ pc = "returned"
    /\ exitCode = 1
    /\ current = sCmd
    /\ osArgs = <<sProg, sCmd, Assign(Short(<<"t">>), <<"x">>), Short(<<"r">>)>>
    /\ sAnum \in FailedFlags(log)
    /\ Flag(sName) = <<"v">>
    /\ At("setFlag") = {}

(* ---------------- C29 ---------------- *)
\* the tokens after the command name
TokensGiven == Drop(osArgs, 2)

\* the token has the form of a flag: one dash or two, then a name
FlagForm(token) == Len(token) >= 2 /\ token[1] = "-" /\ token # <<"-", "-">>

\* the token without its dashes
TokenBody(token) == Drop(token, IF token[2] = "-" THEN 2 ELSE 1)

\* the token carries its value after an equals sign
CarriesValue(token) == IndexFrom(TokenBody(token), "=", 2) # 0

\* the name the token gives, up to the equals sign if there is one
TokenName(token) ==
    IF CarriesValue(token)
    THEN SubSeq(TokenBody(token), 1, IndexFrom(TokenBody(token), "=", 2) - 1)
    ELSE TokenBody(token)

\* the names and aliases the matched command declares, and the boolean ones
DeclaredNames == DOMAIN flagset.nflags \cup DOMAIN flagset.aflags

DeclaredBool(n) ==
    \E b \in BoolFlags : n = b \/ (CurFlags[b].alias # EmptyString /\ n = CurFlags[b].alias)

\* the token is a declared flag of another type than Bool without its value:
\* the token after it is its value
TakesNext(token) ==
    /\ TokenName(token) \in DeclaredNames
    /\ ~DeclaredBool(TokenName(token))
    /\ ~CarriesValue(token)

\* the flag tokenizer rejects the token at position i: no name, a name that is
\* not declared, a boolean with a value that is none, or no token for the value
Rejected(tokens, i) ==
    \/ TokenBody(tokens[i]) = EmptyString
    \/ TokenBody(tokens[i])[1] \in {"-", "="}
    \/ TokenName(tokens[i]) \notin DeclaredNames
    \/ /\ DeclaredBool(TokenName(tokens[i]))
       /\ CarriesValue(tokens[i])
       /\ ParseBool(Drop(TokenBody(tokens[i]), IndexFrom(TokenBody(tokens[i]), "=", 2))) = "error"
    \/ TakesNext(tokens[i]) /\ i = Len(tokens)

\* the position of the first positional candidate when the tokens are read from
\* position i: the first token that is no flag and no value of a flag, or the
\* token after the terminator; with rejects, also the token after the first one
\* that the tokenizer rejects
RECURSIVE FirstCandidate(_, _, _)
FirstCandidate(tokens, i, rejects) ==
    IF i > Len(tokens) THEN i
    ELSE IF tokens[i] = <<"-", "-">> THEN i + 1
    ELSE IF ~FlagForm(tokens[i]) THEN i
    ELSE IF rejects /\ Rejected(tokens, i) THEN i + 1
    ELSE IF TakesNext(tokens[i]) THEN FirstCandidate(tokens, i + 2, rejects)
    ELSE FirstCandidate(tokens, i + 1, rejects)

\* the tokens from position i on
From(tokens, i) == IF i > Len(tokens) THEN << >> ELSE SubSeq(tokens, i, Len(tokens))

\* no token before position k gives the name n
NotNamedBefore(tokens, k, n) ==
    \A i \in 1..(k - 1) :
        i <= Len(tokens) => ~(FlagForm(tokens[i]) /\ TokenName(tokens[i]) = n)

\* the declared name n of the flag set has no value
Unset(n) ==
    LET value == IF n \in DOMAIN flagset.nflags THEN flagset.nflags[n] ELSE flagset.aflags[n]
    IN  IF DeclaredBool(n) THEN value = FALSE ELSE value = EmptyString

\* every declared argument was validated and none failed
ArgsPassed ==
    /\ Len(ArgSteps) = Len(RequiredFirst)
    /\ \A i \in DOMAIN ArgSteps : log[ArgSteps[i]].err = ErrNone

\* the positional candidates are the tokens from position first on, a flag
\* that no token before them names is unset, and the candidates beyond the
\* declared arguments are bound to nothing and stop nothing
CandidatesFrom(first) ==
    /\ Leftover = From(TokensGiven, first)
    /\ \A n \in DeclaredNames : NotNamedBefore(TokensGiven, first, n) => Unset(n)
    /\ Len(ArgSteps) <= Len(RequiredFirst)
    /\ ArgsPassed => (pc \in {"post", "handler"} \/ At("post") \cup At("handler") # {})

PositionIn(order, name) == CHOOSE i \in DOMAIN order : order[i] = name

\* the hook statements of the matched command that make an argument Required
\* and whose hook fired in the Run
FiredOnArgs ==
    {h \in HookAdds(current) :
        h[2].kind = "args" /\ h[2].bit = IsRequired /\ AtParam("onTrue", h[1]) # {}}

\* C30: the ordering the leftover tokens are bound by is computed after the
\* onTrue hooks: an argument a hook of the Run made Required is validated as a
\* Required one, before every optional argument, the ones declared before it
\* too, and with the token at its position in the required-first ordering; the
\* first token goes to the first argument of that ordering.
C30_OrderAfterHooks ==
    (Ran /\ Matched /\ flagset.parsed) =>
        /\ \A h \in FiredOnArgs :
              /\ ArgRequired(h[2].name)
              /\ \A o \in DOMAIN CurArgs :
                    ArgOptional(o) =>
                       /\ Precedes(RequiredFirst, h[2].name, o)
                       /\ \A i \in AtParam("arg", o) :
                             \E j \in AtParam("arg", h[2].name) : j < i
              /\ \A j \in AtParam("arg", h[2].name) :
                    /\ log[j].value = TokenAt(PositionIn(RequiredFirst, h[2].name))
                    /\ log[j].err = validateValue(CurArgs[h[2].name], log[j].value)
                    /\ log[j].value = EmptyString => log[j].err = ErrParamValueMissing
        /\ ArgSteps # << >> =>
              /\ log[ArgSteps[1]].name = RequiredFirst[1]
              /\ log[ArgSteps[1]].value = TokenAt(1)

\* run --zz p: the hook of zz fired, the argument in, declared after the
\* optional out, was validated first and with the one token, and out got none
C30_Witness ==
    /\ pc = "handler"
    /\ current = sRun
    /\ AtParam("onTrue", sZz) # {}
    /\ PositionIn(CurDeclared, sIn) = 2
    /\ Len(Leftover) = 1
    /\ log[ArgSteps[1]].name = sIn
    /\ log[ArgSteps[1]].value = <<"p">>
    /\ log[ArgSteps[2]].name = sOut
    /\ log[ArgSteps[2]].value = EmptyString

====
